---- MODULE Spec2Model ----
(***************************************************************************)
(* A model of the transform stage of tech_pulse_fetcher:                   *)
(* DataProcessor in src/src/data_processor.py.  Each transform is applied  *)
(* to an input list drawn from a bounded set; the classification oracle    *)
(* (openai.chat.completions.create) is an external party whose reply to    *)
(* each call is chosen nondeterministically.                               *)
(***************************************************************************)
EXTENDS Integers, Sequences, FiniteSets, TLC

VARIABLES
    api_key,          \* openai.api_key, set once at import (data_processor.py:14)
    oracle_calls,     \* the oracle calls issued so far, in order
    github_data,      \* argument of process_github_trending
    gh_pc,            \* "off" | "called" | "returned" | "raised"
    chart_data,       \* value returned by process_github_trending
    gh_merged,        \* the languages whose stats were added to other_stats, in order
    predictions_data, \* argument of process_manifold_predictions_for_bubble_plot
    mf_pc,            \* "off" | "called" | "awaiting" | "returned"
    mf_i,             \* index of the prediction whose oracle call is in flight
    plot_data,        \* the points appended so far
    mf_replies,       \* what the oracle did for each prediction, in order
    mf_result,        \* value returned by the prediction categorizer
    product_hunt_data,     \* argument of process_product_hunt_for_sankey
    ph_pc,                 \* "off" | "called" | "awaiting" | "returned" | "raised"
    ph_i,                  \* index of the product whose oracle call is in flight
    all_mapped_categories, \* one list of categories per product asked about
    ph_replies,            \* what the oracle did for each product asked about, in order
    ph_result,             \* value returned by the Sankey builder
    ph_error,              \* the exception that escaped the Sankey builder, if any
    rss_data,          \* argument of process_rss_feeds_for_wordcloud
    rss_pc,            \* "off" | "called" | "awaiting_keywords" | "awaiting_topics" | "returned"
    top_words,         \* word_counts.most_common(50)
    word_cloud_output, \* the parsed reply to the keyword call
    rss_replies,       \* what the oracle did for each call, in order
    rss_result,        \* value returned by the keyword extractor
    SUPABASE_URL,      \* os.getenv("SUPABASE_URL"), read at import (main.py:16)
    SUPABASE_KEY,      \* os.getenv("SUPABASE_KEY"), read at import (main.py:17)
    main_pc,           \* the position of main: "off", the step that is up, "complete" or "raised"
    fetch_log,         \* the fetchers fetch_all has run, in order, with their outcome
    fetched_data,      \* the results mapping of fetch_all, without its metadata
    processed_data,    \* main's output mapping
    local_file,        \* the mapping written to the local JSON file, None before
    store_ops,         \* the requests made to the remote record store, in order
    main_error         \* the exception that escaped main, if any

gh_vars == <<github_data, gh_pc, chart_data, gh_merged>>

mf_vars == <<predictions_data, mf_pc, mf_i, plot_data, mf_replies, mf_result>>

ph_vars == <<product_hunt_data, ph_pc, ph_i, all_mapped_categories, ph_replies,
             ph_result, ph_error>>

rss_vars == <<rss_data, rss_pc, top_words, word_cloud_output, rss_replies, rss_result>>

main_vars == <<SUPABASE_URL, SUPABASE_KEY, main_pc, fetch_log, fetched_data,
               processed_data, local_file, store_ops, main_error>>

vars == <<api_key, oracle_calls, gh_vars, mf_vars, ph_vars, rss_vars, main_vars>>

(***************************************************************************)
(* Python values.                                                          *)
(***************************************************************************)
\* None
None == "None"

\* dict.get(key, default) on a record whose fields are the keys present
Get(d, key, default) == IF key \in DOMAIN d THEN d[key] ELSE default

\* A dict whose keys are not fixed is the sequence of its <<key, value>>
\* items in insertion order.
DictKeys(d) == [i \in 1..Len(d) |-> d[i][1]]

DictHas(d, key) == \E i \in 1..Len(d) : d[i][1] = key

DictGet(d, key) == d[CHOOSE i \in 1..Len(d) : d[i][1] = key][2]

\* d[key] = value: an existing key keeps its position, a new key goes last
DictSet(d, key, value) ==
    IF DictHas(d, key)
    THEN LET i == CHOOSE j \in 1..Len(d) : d[j][1] = key
         IN  SubSeq(d, 1, i - 1) \o << <<key, value>> >> \o SubSeq(d, i + 1, Len(d))
    ELSE Append(d, <<key, value>>)

\* not openai.api_key: None and the empty string are falsy
KeyValues == {None, "", "sk-key"}

HasKeyMutEmptyIsKey(key) == key # None

HasKey(key) == key # None /\ key # ""

(***************************************************************************)
(* process_github_trending                                                 *)
(***************************************************************************)
\* 0.02 as the ratio 1 / OtherShareDen
OtherShareDen == 50

EmptyStats == [repo_count |-> 0, total_stars |-> 0, stars_today |-> 0, repositories |-> <<>>]

RepoSummary(repo) ==
    [title       |-> Get(repo, "title", None),
     description |-> Get(repo, "description", None),
     url         |-> Get(repo, "url", None),
     stars       |-> Get(repo, "stars", None),
     stars_today |-> Get(repo, "stars_today", None)]

AddRepo(stats, repo) ==
    [repo_count   |-> stats.repo_count + 1,
     total_stars  |-> stats.total_stars + Get(repo, "stars", 0),
     stars_today  |-> stats.stars_today + Get(repo, "stars_today", 0),
     repositories |-> Append(stats.repositories, RepoSummary(repo))]

\* a variant that never skips a record
SkipLanguageMutNever(lang) == FALSE

\* if lang == 'Unknown': continue
SkipLanguage(lang) == lang = "Unknown"

\* one iteration of the first loop
StatsStep(language_stats, repo) ==
    LET lang == Get(repo, "language", "Unknown")
    IN  IF SkipLanguage(lang) THEN language_stats
        ELSE LET cur == IF DictHas(language_stats, lang)
                        THEN DictGet(language_stats, lang) ELSE EmptyStats
             IN  DictSet(language_stats, lang, AddRepo(cur, repo))

\* the first loop run over data[lo..hi], in order, from language_stats.  The
\* range is halved, and the state after the first half is computed (its Len
\* taken) before the second half starts, so that the evaluation nests only
\* logarithmically deep; the records are visited in the order of the list.
RECURSIVE StatsLoop(_, _, _, _)
StatsLoop(language_stats, data, lo, hi) ==
    IF lo > hi THEN language_stats
    ELSE IF lo = hi THEN StatsStep(language_stats, data[lo])
    ELSE LET mid  == (lo + hi) \div 2
             left == StatsLoop(language_stats, data, lo, mid)
         IN  IF Len(left) >= 0 THEN StatsLoop(left, data, mid + 1, hi) ELSE left

LanguageStats(data) == StatsLoop(<<>>, data, 1, Len(data))

\* stats['repo_count'] / total_repos < 0.02.  The quotient of two small
\* integers is either 1/50 exactly (and then rounds to the same double as the
\* literal 0.02) or differs from it by far more than one ulp, so the float
\* comparison agrees with the exact one.
BelowShareMutLe(repo_count, total_repos) == repo_count * OtherShareDen <= total_repos

BelowShare(repo_count, total_repos) == repo_count * OtherShareDen < total_repos

\* stats['repo_count'] / total_repos raises ZeroDivisionError when total_repos
\* is 0; the division is evaluated once per item of language_stats
ZeroDivision(language_stats, total_repos) ==
    Len(language_stats) > 0 /\ total_repos = 0

MergeStats(other, stats) ==
    [repo_count   |-> other.repo_count + stats.repo_count,
     total_stars  |-> other.total_stars + stats.total_stars,
     stars_today  |-> other.stars_today + stats.stars_today,
     repositories |-> other.repositories \o stats.repositories]

\* the second loop, over the first n items of language_stats:
\* other_stats, final_languages and the languages merged so far
RECURSIVE SplitOther(_, _, _)
SplitOther(language_stats, total_repos, n) ==
    IF n = 0 THEN [other |-> EmptyStats, final |-> <<>>, merged |-> <<>>]
    ELSE LET prev  == SplitOther(language_stats, total_repos, n - 1)
             lang  == language_stats[n][1]
             stats == language_stats[n][2]
         IN  IF BelowShare(stats.repo_count, total_repos)
             THEN [other  |-> MergeStats(prev.other, stats),
                   final  |-> prev.final,
                   merged |-> Append(prev.merged, lang)]
             ELSE [other  |-> prev.other,
                   final  |-> DictSet(prev.final, lang, stats),
                   merged |-> prev.merged]

FinalLanguages(split) ==
    IF split.other.repo_count > 0
    THEN DictSet(split.final, "Other", split.other)
    ELSE split.final

Palette == <<"#3572A5", "#F1E05A", "#00ADD8", "#DEA584", "#89E051", "#B07219", "#CCCCCC">>

\* a variant that lists the counts in the reverse order of the labels
ChartDataMutReversedData(final_languages) ==
    [labels          |-> DictKeys(final_languages),
     label           |-> "GitHub Trending Languages",
     data            |-> [i \in 1..Len(final_languages) |->
                            final_languages[Len(final_languages) + 1 - i][2].repo_count],
     backgroundColor |-> Palette,
     hoverData       |-> [i \in 1..Len(final_languages) |->
                            [total_stars  |-> final_languages[i][2].total_stars,
                             stars_today  |-> final_languages[i][2].stars_today,
                             repositories |-> final_languages[i][2].repositories]]]

ChartData(final_languages) ==
    [labels          |-> DictKeys(final_languages),
     label           |-> "GitHub Trending Languages",
     data            |-> [i \in 1..Len(final_languages) |-> final_languages[i][2].repo_count],
     backgroundColor |-> Palette,
     hoverData       |-> [i \in 1..Len(final_languages) |->
                            [total_stars  |-> final_languages[i][2].total_stars,
                             stars_today  |-> final_languages[i][2].stars_today,
                             repositories |-> final_languages[i][2].repositories]]]

process_github_trending(data) ==
    LET language_stats == LanguageStats(data)
        total_repos    == Len(data)
        split          == SplitOther(language_stats, total_repos, Len(language_stats))
    IN  IF ZeroDivision(language_stats, total_repos)
        THEN [raised |-> TRUE, chart |-> None, merged |-> <<>>]
        ELSE [raised |-> FALSE,
              chart  |-> ChartData(FinalLanguages(split)),
              merged |-> split.merged]

(***************************************************************************)
(* Inputs of process_github_trending: lists made of blocks of repositories *)
(* of one language each.                                                   *)
(***************************************************************************)
MaxBlocks == 3

GhLanguages == {"Python", "Go", "Other", "Unknown"}

NoLanguage == "<no language key>"

BlockSizes == {1, 49}

Blocks == [language : GhLanguages \cup {NoLanguage}, n : BlockSizes]

\* the p-th repository of a list, as fetch_github_trending builds it; without
\* the language key when language is NoLanguage
GhRepo(language, p) ==
    IF language = NoLanguage
    THEN [title       |-> "repo" \o ToString(p),
          description |-> "No description",
          url         |-> "https://github.com/repo" \o ToString(p),
          stars       |-> p % 3,
          stars_today |-> p % 2]
    ELSE [title       |-> "repo" \o ToString(p),
          description |-> "No description",
          url         |-> "https://github.com/repo" \o ToString(p),
          language    |-> language,
          stars       |-> p % 3,
          stars_today |-> p % 2]

RECURSIVE Expand(_, _)
Expand(blocks, k) ==
    IF k = 0 THEN <<>>
    ELSE LET prev == Expand(blocks, k - 1)
         IN  prev \o [i \in 1..blocks[k].n |-> GhRepo(blocks[k].language, Len(prev) + i)]

\* the example of the specification: 60 Python, 25 Go, 10 Rust, 5 Unknown
ExampleBlocks ==
    << [language |-> "Python", n |-> 60], [language |-> "Go", n |-> 25],
       [language |-> "Rust", n |-> 10], [language |-> "Unknown", n |-> 5] >>

GithubBlockLists == UNION { [1..k -> Blocks] : k \in 0..MaxBlocks } \cup { ExampleBlocks }

(***************************************************************************)
(* The classification oracle: openai.chat.completions.create followed by   *)
(* json.loads of the reply's content.  A reply is one of                   *)
(*   raise        the call raises (network error, no choices, no content)  *)
(*   unparseable  the content is not JSON: json.loads raises               *)
(*   array        the content is JSON but not an object: .get/.items raise *)
(*   object       the content is a JSON object, obj                        *)
(***************************************************************************)
FailedReplies == {[kind |-> "raise"], [kind |-> "unparseable"], [kind |-> "array"]}

ObjectReply(obj) == [kind |-> "object", obj |-> obj]

\* {}: the dict without keys
EmptyDict == << >>

(***************************************************************************)
(* process_manifold_predictions_for_bubble_plot                            *)
(***************************************************************************)
CORE_PREDICTION_CATEGORIES ==
    <<"AI", "Blockchain/Crypto", "Science/Research", "Politics/Society",
      "Economics/Finance", "Technology (General)", "Health", "Other">>

SeqRange(s) == {s[i] : i \in 1..Len(s)}

\* probabilities are counted in hundredths: 0.5 is 50
DefaultProbability == 50

\* f"Title: {title}."
FullText(prediction) == "Title: " \o Get(prediction, "title", "") \o "."

\* the point appended on the except path (line 316)
FallbackPoint(prediction) ==
    [x |-> DefaultProbability, y |-> 0, label |-> Get(prediction, "title", ""), category |-> "Other"]

ResolveCategoryMutKeep(category) == category

\* lines 305-306
ResolveCategory(category) ==
    IF category \in SeqRange(CORE_PREDICTION_CATEGORIES) THEN category ELSE "Other"

\* the point appended on the try path (lines 303-313)
CategorizedPoint(prediction, llm_output) ==
    [x        |-> Get(prediction, "probability_raw", DefaultProbability),
     y        |-> Get(prediction, "volume", 0),
     label    |-> Get(prediction, "title", ""),
     category |-> ResolveCategory(Get(llm_output, "category", "Other")),
     url      |-> Get(prediction, "url", "")]

PlotPointMutFallbackCopies(prediction, reply) ==
    IF reply.kind = "object"
    THEN CategorizedPoint(prediction, reply.obj)
    ELSE CategorizedPoint(prediction, EmptyDict)

\* the body of the loop after the oracle call: try (lines 303-313) or except
\* (lines 314-316)
PlotPoint(prediction, reply) ==
    IF reply.kind = "object"
    THEN CategorizedPoint(prediction, reply.obj)
    ELSE FallbackPoint(prediction)

FinalData(points) ==
    [datasets   |-> << [label |-> "Manifold Predictions", data |-> points] >>,
     categories |-> CORE_PREDICTION_CATEGORIES]

ManifoldCallEntry(i) ==
    [site |-> "manifold", record |-> i, text |-> FullText(predictions_data[i])]

(***************************************************************************)
(* Inputs of the prediction categorizer.                                   *)
(***************************************************************************)
MaxPredictions == 2

PredictionRecords ==
    { [title |-> "Will AI win?", probability_raw |-> 70, volume |-> 1200,
       url |-> "https://manifold.markets/a"],
      [title |-> "Rate cut?", probability_raw |-> 10, volume |-> 0,
       url |-> "https://manifold.markets/b"],
      [title |-> "No numbers"] }

ManifoldInputs == UNION { [1..k -> PredictionRecords] : k \in 0..MaxPredictions }

ManifoldObjects ==
    { [category |-> "AI"], [category |-> "Health"], [category |-> "Other"],
      [category |-> "Sports"], [category |-> None], [label |-> "AI"], EmptyDict }

ManifoldReplies == FailedReplies \cup { ObjectReply(o) : o \in ManifoldObjects }

(***************************************************************************)
(* process_product_hunt_for_sankey                                         *)
(***************************************************************************)
CORE_CATEGORIES ==
    <<"AI/ML", "Developer Tools", "Productivity", "Design", "Marketing & Sales",
      "Finance", "Education", "Health & Fitness", "Gaming", "Hardware", "Security",
      "Social", "Data & Analytics", "No-Code/Low-Code", "Other">>

\* the strings of the model in the order of Python's str comparison
PyStringOrder ==
    <<"AI/ML", "Data & Analytics", "Design", "Developer Tools", "Education",
      "Finance", "Gaming", "Hardware", "Health & Fitness", "Marketing & Sales",
      "No-Code/Low-Code", "Other", "Productivity", "Robotics", "Security", "Social">>

StrRank(a) == CHOOSE i \in 1..Len(PyStringOrder) : PyStringOrder[i] = a

SortedPairMutUnsorted(a, b) == <<a, b>>

\* tuple(sorted((a, b)))
SortedPair(a, b) == IF StrRank(b) < StrRank(a) THEN <<b, a>> ELSE <<a, b>>

\* JSON values that occur as scores
Num(n) == [t |-> "number", v |-> n]

Str(x) == [t |-> "string", v |-> x]

ScoreThreshold == 3

TopCount == 2

\* sorted(...) compares a number with a string, or score > 3 is evaluated on a
\* string: TypeError.  A list that mixes numbers and strings cannot be sorted,
\* and in a list of strings alone the first item reaches score > 3, so the
\* try block raises exactly when some score is not a number.
ScoresRaise(items) == \E i \in 1..Len(items) : items[i][2].t # "number"

\* one insertion of the stable, descending sort: after every item whose score
\* is at least as large
InsertByScore(sorted, item) ==
    LET k == Cardinality({i \in 1..Len(sorted) : sorted[i][2].v >= item[2].v})
    IN  SubSeq(sorted, 1, k) \o <<item>> \o SubSeq(sorted, k + 1, Len(sorted))

\* sorted(relevance_scores.items(), key=lambda item: item[1], reverse=True)
RECURSIVE SortedCategories(_, _)
SortedCategories(items, n) ==
    IF n = 0 THEN <<>> ELSE InsertByScore(SortedCategories(items, n - 1), items[n])

\* a variant that keeps a score equal to the threshold
AboveThresholdMutGe(item) == item[2].v >= ScoreThreshold

\* score > 3
AboveThreshold(item) == item[2].v > ScoreThreshold

\* [cat for cat, score in sorted_categories[:2] if score > 3]
TopCategories(sorted_categories) ==
    LET head == SubSeq(sorted_categories, 1,
                       IF Len(sorted_categories) < TopCount
                       THEN Len(sorted_categories) ELSE TopCount)
        kept == SelectSeq(head, AboveThreshold)
    IN  [i \in 1..Len(kept) |-> kept[i][1]]

\* lines 226-241: the list appended for one product, on the try path or on
\* the except path
MappedCategories(reply) ==
    IF reply.kind # "object" \/ ScoresRaise(reply.obj)
    THEN <<"Other">>
    ELSE TopCategories(SortedCategories(reply.obj, Len(reply.obj)))

\* nodes, lines 243-247
Nodes == [i \in 1..Len(CORE_CATEGORIES) |-> [node |-> i - 1, name |-> CORE_CATEGORIES[i]]]

InNodeToId(category) == \E i \in 1..Len(CORE_CATEGORIES) : CORE_CATEGORIES[i] = category

\* node_to_id[category], for a category that is a key
NodeToId(category) == (CHOOSE i \in 1..Len(CORE_CATEGORIES) : CORE_CATEGORIES[i] = category) - 1

\* links[key] += 1 on a Counter
Increment(links, key) ==
    DictSet(links, key, (IF DictHas(links, key) THEN DictGet(links, key) ELSE 0) + 1)

\* lines 252-253
RECURSIVE InnerPairs(_, _, _, _)
InnerPairs(links, product_cats, i, j) ==
    IF j > Len(product_cats) THEN links
    ELSE InnerPairs(Increment(links, SortedPair(product_cats[i], product_cats[j])),
                    product_cats, i, j + 1)

\* lines 251-253
RECURSIVE OuterPairs(_, _, _)
OuterPairs(links, product_cats, i) ==
    IF i > Len(product_cats) THEN links
    ELSE OuterPairs(InnerPairs(links, product_cats, i, i + 1), product_cats, i + 1)

\* lines 249-253: the Counter after the first n lists
RECURSIVE CountLinks(_, _)
CountLinks(mapped, n) ==
    IF n = 0 THEN <<>> ELSE OuterPairs(CountLinks(mapped, n - 1), mapped[n], 1)

\* node_to_id[source_cat] or node_to_id[target_cat] raises KeyError (lines
\* 259-260), outside every try block
LinksRaise(links) ==
    \E k \in 1..Len(links) :
        links[k][2] > 0 /\ (~InNodeToId(links[k][1][1]) \/ ~InNodeToId(links[k][1][2]))

\* lines 255-262, when no key is missing
SankeyLinks(links) ==
    LET kept == SelectSeq(links, LAMBDA item : item[2] > 0)
    IN  [k \in 1..Len(kept) |->
            [source |-> NodeToId(kept[k][1][1]),
             target |-> NodeToId(kept[k][1][2]),
             value  |-> kept[k][2]]]

\* lines 266-273
ProductDetails(data) ==
    [i \in 1..Len(data) |->
        [title  |-> Get(data[i], "title", ""),
         url    |-> Get(data[i], "url", ""),
         topics |-> Get(data[i], "topics", <<>>)]]

\* lines 264-278
FinalProductHuntData(data, mapped) ==
    [sankey_data     |-> [nodes |-> Nodes,
                          links |-> SankeyLinks(CountLinks(mapped, Len(mapped)))],
     product_details |-> ProductDetails(data)]

\* a variant that goes on with the last product that has topics
NextAskedMutLast(data, from) ==
    IF \E k \in from..Len(data) : Get(data[k], "topics", <<>>) # <<>>
    THEN CHOOSE k \in from..Len(data) :
            /\ Get(data[k], "topics", <<>>) # <<>>
            /\ \A m \in (k + 1)..Len(data) : Get(data[m], "topics", <<>>) = <<>>
    ELSE 0

\* the first product at or after position from whose topics list is not empty
\* (lines 222-225), 0 when there is none
NextAsked(data, from) ==
    IF \E k \in from..Len(data) : Get(data[k], "topics", <<>>) # <<>>
    THEN CHOOSE k \in from..Len(data) :
            /\ Get(data[k], "topics", <<>>) # <<>>
            /\ \A m \in from..(k - 1) : Get(data[m], "topics", <<>>) = <<>>
    ELSE 0

SankeyCallEntry(i) ==
    [site |-> "sankey", record |-> i, text |-> product_hunt_data[i].topics]

(***************************************************************************)
(* Inputs of the Sankey builder, and the oracle's replies to it.           *)
(***************************************************************************)
MaxProducts == 2

ProductRecords ==
    { [title |-> "Copilot", tagline |-> "Pair programmer", url |-> "https://ph.co/1",
       topics |-> <<"Artificial Intelligence", "Developer Tools">>],
      [title |-> "Figma", tagline |-> "Design together", url |-> "https://ph.co/2",
       topics |-> <<"Design Tools">>],
      [title |-> "From the feed", tagline |-> "No topics", url |-> "https://ph.co/3"] }

SankeyInputs == UNION { [1..k -> ProductRecords] : k \in 0..MaxProducts }

ScoreObjects ==
    { << <<"Other", Num(4)>>, <<"AI/ML", Num(9)>>, <<"Design", Num(8)>> >>,
      << <<"Design", Num(9)>>, <<"AI/ML", Num(7)>> >>,
      << <<"Other", Num(9)>>, <<"Design", Num(6)>> >>,
      << <<"Other", Num(2)>>, <<"Design", Num(3)>>, <<"AI/ML", Num(5)>> >>,
      << <<"AI/ML", Num(1)>> >>,
      << <<"Robotics", Num(9)>>, <<"AI/ML", Num(8)>> >>,
      << <<"AI/ML", Str("high")>> >> }

SankeyReplies == FailedReplies \cup { ObjectReply(o) : o \in ScoreObjects }

(***************************************************************************)
(* process_rss_feeds_for_wordcloud.  A text is the sequence of its         *)
(* characters.                                                             *)
(***************************************************************************)
UpperLetters ==
    <<"A", "B", "C", "D", "E", "F", "G", "H", "I", "J", "K", "L", "M",
      "N", "O", "P", "Q", "R", "S", "T", "U", "V", "W", "X", "Y", "Z">>

LowerLetters ==
    <<"a", "b", "c", "d", "e", "f", "g", "h", "i", "j", "k", "l", "m",
      "n", "o", "p", "q", "r", "s", "t", "u", "v", "w", "x", "y", "z">>

\* [a-zA-Z]
IsAsciiLetter(c) == c \in SeqRange(UpperLetters) \cup SeqRange(LowerLetters)

\* \s, and the separators of str.split()
IsSpace(c) == c \in {" ", "\t", "\n"}

\* str.lower() on one character
LowerChar(c) ==
    IF c \in SeqRange(UpperLetters)
    THEN LowerLetters[CHOOSE i \in 1..Len(UpperLetters) : UpperLetters[i] = c]
    ELSE c

\* re.sub(r'[^a-zA-Z\s]', '', all_text).lower()
CleanedText(all_text) ==
    LET kept == SelectSeq(all_text, LAMBDA c : IsAsciiLetter(c) \/ IsSpace(c))
    IN  [i \in 1..Len(kept) |-> LowerChar(kept[i])]

\* str.split(): the maximal runs of characters that are not whitespace, in order
SplitWords(text) ==
    LET starts == SelectSeq([i \in 1..Len(text) |-> i],
                            LAMBDA i : ~IsSpace(text[i]) /\ (i = 1 \/ IsSpace(text[i - 1])))
        EndOf(i) == CHOOSE j \in i..Len(text) :
                      /\ \A m \in i..j : ~IsSpace(text[m])
                      /\ (j = Len(text) \/ IsSpace(text[j + 1]))
    IN  [k \in 1..Len(starts) |-> SubSeq(text, starts[k], EndOf(starts[k]))]

\* the word as a string
RECURSIVE AsString(_)
AsString(word) == IF word = <<>> THEN "" ELSE Head(word) \o AsString(Tail(word))

STOP_WORDS ==
    {"the", "and", "a", "an", "is", "it", "in", "of", "for", "on", "with", "to",
     "from", "by", "as", "at", "be", "this", "that", "have", "has", "he", "she",
     "they", "we", "you", "i", "me", "him", "her", "us", "them", "my", "your", "his",
     "its", "our", "their", "what", "where", "when", "why", "how", "which", "who",
     "whom", "whose", "am", "are", "was", "were", "been", "being", "do", "does", "did",
     "done", "doing", "can", "could", "would", "should", "will", "may", "might",
     "must", "had", "get", "go", "new", "just", "also", "like", "said", "says", "say",
     "one", "two", "three", "four", "five", "six", "seven", "eight", "nine", "ten",
     "up", "down", "out", "off", "over", "under", "again", "further", "then", "once",
     "here", "there", "all", "any", "both", "each", "few", "more", "most", "other",
     "some", "such", "no", "nor", "not", "only", "own", "same", "so", "than", "too",
     "very", "s", "t", "don", "now", "d", "ll", "m", "o", "re", "ve", "y", "ain",
     "aren", "couldn", "didn", "doesn", "hadn", "hasn", "haven", "isn", "ma", "mightn",
     "mustn", "needn", "shan", "shouldn", "wasn", "weren", "won", "wouldn"}

MinWordLen == 2

KeepWordMutGe(word) == AsString(word) \notin STOP_WORDS /\ Len(word) >= MinWordLen

\* word not in STOP_WORDS and len(word) > 2
KeepWord(word) == AsString(word) \notin STOP_WORDS /\ Len(word) > MinWordLen

\* f"{article.get('title', '')} {article.get('description', '')}"
ArticleText(article) ==
    Get(article, "title", <<>>) \o <<" ">> \o Get(article, "description", <<>>)

\* " ".join(parts)
RECURSIVE JoinRange(_, _, _)
JoinRange(parts, lo, hi) ==
    IF lo > hi THEN <<>>
    ELSE IF lo = hi THEN parts[lo]
    ELSE LET mid == (lo + hi) \div 2
         IN  JoinRange(parts, lo, mid) \o <<" ">> \o JoinRange(parts, mid + 1, hi)

JoinWithSpace(parts, n) == JoinRange(parts, 1, n)

\* line 82: the articles that are truthy, joined
AllText(data) ==
    LET truthy == SelectSeq(data, LAMBDA article : article # EmptyDict)
    IN  JoinWithSpace([i \in 1..Len(truthy) |-> ArticleText(truthy[i])], Len(truthy))

\* Counter(filtered_words), after the first n words
\* Counter's loop over filtered_words[lo..hi], in order, from counts; the
\* range is halved as in StatsLoop
RECURSIVE CountLoop(_, _, _, _)
CountLoop(counts, filtered_words, lo, hi) ==
    IF lo > hi THEN counts
    ELSE IF lo = hi THEN Increment(counts, filtered_words[lo])
    ELSE LET mid  == (lo + hi) \div 2
             left == CountLoop(counts, filtered_words, lo, mid)
         IN  IF Len(left) >= 0 THEN CountLoop(left, filtered_words, mid + 1, hi) ELSE left

WordCounts(filtered_words, n) == CountLoop(<<>>, filtered_words, 1, n)

\* one insertion of the stable, descending sort by count
InsertByCount(sorted, item) ==
    LET k == Cardinality({i \in 1..Len(sorted) : sorted[i][2] >= item[2]})
    IN  SubSeq(sorted, 1, k) \o <<item>> \o SubSeq(sorted, k + 1, Len(sorted))

\* the insertions of items[lo..hi], in order, into sorted
RECURSIVE SortLoop(_, _, _, _)
SortLoop(sorted, items, lo, hi) ==
    IF lo > hi THEN sorted
    ELSE IF lo = hi THEN InsertByCount(sorted, items[lo])
    ELSE LET mid  == (lo + hi) \div 2
             left == SortLoop(sorted, items, lo, mid)
         IN  IF Len(left) >= 0 THEN SortLoop(left, items, mid + 1, hi) ELSE left

SortedByCount(items, n) == SortLoop(<<>>, items, 1, n)

TopWordCount == 50

\* a variant that takes the first n items without sorting them
MostCommonMutUnsorted(word_counts, n) ==
    SubSeq(word_counts, 1, IF Len(word_counts) < n THEN Len(word_counts) ELSE n)

\* Counter.most_common(n): by count, largest first, ties in insertion order
MostCommon(word_counts, n) ==
    LET sorted == SortedByCount(word_counts, Len(word_counts))
    IN  SubSeq(sorted, 1, IF Len(sorted) < n THEN Len(sorted) ELSE n)

\* lines 82-90
TopWords(data) ==
    LET words          == SplitWords(CleanedText(AllText(data)))
        filtered_words == SelectSeq(words, KeepWord)
    IN  MostCommon(WordCounts(filtered_words, Len(filtered_words)), TopWordCount)

\* line 149
SummarizedRssData(data) ==
    LET truthy == SelectSeq(data, LAMBDA article : article # EmptyDict)
    IN  [i \in 1..Len(truthy) |->
            [title       |-> Get(truthy[i], "title", <<>>),
             description |-> Get(truthy[i], "description", <<>>)]]

\* openai...create raised, or json.loads raised (lines 135-143, 187-195)
ReplyRaises(reply) == reply.kind \in {"raise", "unparseable"}

\* a variant that leaves a key out of the result when the reply lacks it
FinalOutputMutNoDefault(keywords_reply, topics_reply) ==
    IF ReplyRaises(topics_reply)
          \/ keywords_reply.kind # "object" \/ topics_reply.kind # "object"
    THEN EmptyDict
    ELSE IF "keywords" \notin DOMAIN keywords_reply.obj
    THEN [hot_topics |-> Get(topics_reply.obj, "hot_topics", <<>>)]
    ELSE IF "hot_topics" \notin DOMAIN topics_reply.obj
    THEN [keywords |-> keywords_reply.obj.keywords]
    ELSE [keywords   |-> keywords_reply.obj.keywords,
          hot_topics |-> topics_reply.obj.hot_topics]

FinalOutputMutKeepKeywords(keywords_reply, topics_reply) ==
    IF keywords_reply.kind # "object"
    THEN EmptyDict
    ELSE [keywords   |-> Get(keywords_reply.obj, "keywords", <<>>),
          hot_topics |-> IF topics_reply.kind # "object" THEN <<>>
                         ELSE Get(topics_reply.obj, "hot_topics", <<>>)]

\* lines 195-208 once the reply to the second call is there: json.loads of
\* it, then .get on both parsed values; any exception gives {}
FinalOutput(keywords_reply, topics_reply) ==
    IF ReplyRaises(topics_reply)
          \/ keywords_reply.kind # "object" \/ topics_reply.kind # "object"
    THEN EmptyDict
    ELSE [keywords   |-> Get(keywords_reply.obj, "keywords", <<>>),
          hot_topics |-> Get(topics_reply.obj, "hot_topics", <<>>)]

(***************************************************************************)
(* Inputs of the keyword extractor, and the oracle's replies to it.        *)
(***************************************************************************)
MaxArticles == 2

\* the i-th of a family of distinct three-letter tokens, none a stop word
Token(i) == <<"x", LowerLetters[(i \div 26) + 1], LowerLetters[(i % 26) + 1]>>

DistinctTokens == 52

\* a title of 52 distinct tokens of which the last two occur once more at the
\* end: more distinct tokens than most_common(50) keeps, the most frequent
\* ones last in the text
LongTitle ==
    JoinWithSpace([i \in 1..(DistinctTokens + 2) |->
                     Token(IF i > DistinctTokens THEN i - 2 ELSE i)], DistinctTokens + 2)

RssArticles ==
    { EmptyDict,
      [title |-> <<"T", "h", "e", " ", "G", "P", "T", "-", "4", " ", "e", "r", "a">>,
       description |-> <<"A", "I", " ", "i", "s", " ", "n", "e", "w">>],
      [title |-> <<"R", "u", "s", "t", " ", "2", ".", "0", "!">>,
       description |-> <<"r", "u", "s", "t", " ", "a", "n", "d", " ", "G", "P", "T">>],
      [title |-> <<"t", ".", "h", ".", "e", " ", "e", "r", "a">>],
      [description |-> <<"N", "e", "w", "\n", "E", "r", "a", ":", " ", "R", "U", "S", "T">>],
      [title |-> LongTitle] }

RssInputs == UNION { [1..k -> RssArticles] : k \in 0..MaxArticles }

KeywordObjects ==
    { [keywords |-> << [text |-> "GPT", value |-> 90, desc |-> "In the news today"] >>],
      [words |-> << [text |-> "GPT", value |-> 90] >>] }

TopicObjects ==
    { [hot_topics |-> << [topic |-> "Models", summary |-> "New releases",
                          momentum |-> "Intense"] >>],
      [topics |-> << [topic |-> "Models"] >>] }

KeywordReplies == FailedReplies \cup { ObjectReply(o) : o \in KeywordObjects }

TopicReplies == FailedReplies \cup { ObjectReply(o) : o \in TopicObjects }

(***************************************************************************)
(* The transforms as operations.  An operation that calls the oracle is    *)
(* split at its blocking calls: the action up to the first call, and one   *)
(* action per reply, which runs the handler up to the next call or to its  *)
(* return.                                                                 *)
(***************************************************************************)
GithubOff ==
    /\ github_data = <<>>
    /\ gh_pc = "off"
    /\ chart_data = None
    /\ gh_merged = <<>>

ManifoldOff ==
    /\ predictions_data = <<>>
    /\ mf_pc = "off"
    /\ mf_i = 0
    /\ plot_data = <<>>
    /\ mf_replies = <<>>
    /\ mf_result = None

SankeyOff ==
    /\ product_hunt_data = <<>>
    /\ ph_pc = "off"
    /\ ph_i = 0
    /\ all_mapped_categories = <<>>
    /\ ph_replies = <<>>
    /\ ph_result = None
    /\ ph_error = None

RssOff ==
    /\ rss_data = <<>>
    /\ rss_pc = "off"
    /\ top_words = <<>>
    /\ word_cloud_output = None
    /\ rss_replies = <<>>
    /\ rss_result = None

(***************************************************************************)
(* main (src/main.py) and TechPulseFetcher.fetch_all.  A run fetches the   *)
(* four sources in the order of the results literal, invokes the           *)
(* transforms above on the lists that are not empty, writes the local      *)
(* file and inserts the row.  The four sources, the file system and the    *)
(* record store are external parties whose outcome at each call is chosen  *)
(* nondeterministically.                                                   *)
(***************************************************************************)
\* values of an environment variable read by os.getenv
EnvValues == {None, "", "set"}

\* a variant that only tests the URL
NoSupabaseMutUrlOnly(url, key) == url \in {None, ""}

\* not SUPABASE_URL or not SUPABASE_KEY (line 20)
NoSupabase(url, key) == url \in {None, ""} \/ key \in {None, ""}

\* what each fetcher returns when its request succeeds
FetchedProducts == << [title |-> "Copilot", tagline |-> "Pair programmer",
                       url |-> "https://ph.co/1",
                       topics |-> <<"Artificial Intelligence", "Developer Tools">>] >>

\* the records of fetch_product_hunt_rss carry no topics
FetchedProductsRss == << [title |-> "From the feed", tagline |-> "No topics",
                          url |-> "https://ph.co/3"] >>

FetchedRepos == << GhRepo("Python", 1), GhRepo("Unknown", 2) >>

FetchedArticles ==
    << [title |-> <<"R", "u", "s", "t", " ", "2", ".", "0", "!">>,
        description |-> <<"r", "u", "s", "t", " ", "a", "n", "d", " ", "G", "P", "T">>] >>

FetchedPredictions == << [title |-> "Will AI win?", probability_raw |-> 70,
                          volume |-> 1200, url |-> "https://manifold.markets/a"] >>

\* a variant in which a failed fetch keeps the records of an earlier run
FetchFailedMutStale == FetchedPredictions

\* the except clause of a fetcher: return []
FetchFailed == <<>>

EmptyResults ==
    [product_hunt |-> <<>>, github_trending |-> <<>>, rss_articles |-> <<>>,
     predictions |-> <<>>]

\* the output key main stores each transform's result under (lines 54-60)
OutputKey ==
    [github_trending |-> "github_language_distribution",
     rss_articles    |-> "news_word_cloud",
     product_hunt    |-> "product_hunt_tag_connections",
     predictions     |-> "manifold_predictions_bubble_plot"]

\* a variant whose except clause logs the error and returns
AfterStoreErrorMutSwallow == "complete"

\* lines 37-39: the except clause logs the error and re-raises it; main has no
\* try block, so the run ends there
AfterStoreError == "raised"

\* the row of line 33
PulseRow(data) == [table |-> "tech_pulses", op |-> "insert", pulse_data |-> data]

MainOff ==
    /\ SUPABASE_URL = None
    /\ SUPABASE_KEY = None
    /\ main_pc = "off"
    /\ fetch_log = <<>>
    /\ fetched_data = EmptyResults
    /\ processed_data = <<>>
    /\ local_file = None
    /\ store_ops = <<>>
    /\ main_error = None

InitGithub ==
    /\ MainOff
    /\ api_key = "sk-key"
    /\ oracle_calls = <<>>
    /\ \E bl \in GithubBlockLists : github_data = Expand(bl, Len(bl))
    /\ gh_pc = "called"
    /\ chart_data = None
    /\ gh_merged = <<>>
    /\ ManifoldOff
    /\ SankeyOff
    /\ RssOff

ProcessGithubTrending ==
    /\ gh_pc = "called"
    /\ LET r == process_github_trending(github_data)
       IN  /\ chart_data' = r.chart
           /\ gh_merged' = r.merged
           /\ gh_pc' = IF r.raised THEN "raised" ELSE "returned"
    /\ UNCHANGED <<api_key, oracle_calls, github_data, mf_vars, ph_vars, rss_vars, main_vars>>

NextGithub == ProcessGithubTrending

SpecGithub == InitGithub /\ [][NextGithub]_vars

InitManifold ==
    /\ MainOff
    /\ api_key \in KeyValues
    /\ oracle_calls = <<>>
    /\ GithubOff
    /\ SankeyOff
    /\ RssOff
    /\ predictions_data \in ManifoldInputs
    /\ mf_pc = "called"
    /\ mf_i = 0
    /\ plot_data = <<>>
    /\ mf_replies = <<>>
    /\ mf_result = None

\* lines 282-295: up to the first oracle call, or to the return
ProcessManifoldCall ==
    /\ mf_pc = "called"
    /\ IF ~HasKey(api_key)
       THEN /\ mf_result' = EmptyDict
            /\ mf_pc' = "returned"
            /\ UNCHANGED <<oracle_calls, mf_i>>
       ELSE IF predictions_data = <<>>
       THEN /\ mf_result' = FinalData(plot_data)
            /\ mf_pc' = "returned"
            /\ UNCHANGED <<oracle_calls, mf_i>>
       ELSE /\ oracle_calls' = Append(oracle_calls, ManifoldCallEntry(1))
            /\ mf_i' = 1
            /\ mf_pc' = "awaiting"
            /\ UNCHANGED mf_result
    /\ UNCHANGED <<api_key, predictions_data, plot_data, mf_replies, gh_vars, ph_vars, rss_vars, main_vars>>

\* lines 303-316 for the prediction in flight, then the next call (line 295)
\* or lines 318-326
ProcessManifoldReply ==
    /\ mf_pc = "awaiting"
    /\ \E reply \in ManifoldReplies :
          LET points == Append(plot_data, PlotPoint(predictions_data[mf_i], reply))
          IN  /\ plot_data' = points
              /\ mf_replies' = Append(mf_replies, reply)
              /\ IF mf_i < Len(predictions_data)
                 THEN /\ oracle_calls' = Append(oracle_calls, ManifoldCallEntry(mf_i + 1))
                      /\ mf_i' = mf_i + 1
                      /\ UNCHANGED <<mf_pc, mf_result>>
                 ELSE /\ mf_result' = FinalData(points)
                      /\ mf_pc' = "returned"
                      /\ UNCHANGED <<oracle_calls, mf_i>>
    /\ UNCHANGED <<api_key, predictions_data, gh_vars, ph_vars, rss_vars, main_vars>>

NextManifold == ProcessManifoldCall \/ ProcessManifoldReply

SpecManifold == InitManifold /\ [][NextManifold]_vars

InitSankey ==
    /\ MainOff
    /\ api_key \in KeyValues
    /\ oracle_calls = <<>>
    /\ GithubOff
    /\ ManifoldOff
    /\ RssOff
    /\ product_hunt_data \in SankeyInputs
    /\ ph_pc = "called"
    /\ ph_i = 0
    /\ all_mapped_categories = <<>>
    /\ ph_replies = <<>>
    /\ ph_result = None
    /\ ph_error = None

\* the loop of lines 222-241 resumed at position from with the lists mapped:
\* up to the next oracle call, or through lines 243-280 to the return, or to
\* the KeyError of lines 259-260
SankeyResume(from, mapped) ==
    LET k == NextAsked(product_hunt_data, from)
    IN  /\ all_mapped_categories' = mapped
        /\ IF k # 0
           THEN /\ oracle_calls' = Append(oracle_calls, SankeyCallEntry(k))
                /\ ph_i' = k
                /\ ph_pc' = "awaiting"
                /\ UNCHANGED <<ph_result, ph_error>>
           ELSE IF LinksRaise(CountLinks(mapped, Len(mapped)))
           THEN /\ ph_pc' = "raised"
                /\ ph_error' = "KeyError"
                /\ UNCHANGED <<oracle_calls, ph_i, ph_result>>
           ELSE /\ ph_pc' = "returned"
                /\ ph_result' = FinalProductHuntData(product_hunt_data, mapped)
                /\ UNCHANGED <<oracle_calls, ph_i, ph_error>>

\* lines 213-234: up to the first oracle call, or to the end
ProcessSankeyCall ==
    /\ ph_pc = "called"
    /\ IF ~HasKey(api_key)
       THEN /\ ph_result' = EmptyDict
            /\ ph_pc' = "returned"
            /\ UNCHANGED <<oracle_calls, ph_i, all_mapped_categories, ph_error>>
       ELSE SankeyResume(1, <<>>)
    /\ UNCHANGED <<api_key, product_hunt_data, ph_replies, gh_vars, mf_vars, rss_vars, main_vars>>

\* lines 235-241 for the product in flight, then on from the next product
ProcessSankeyReply ==
    /\ ph_pc = "awaiting"
    /\ \E reply \in SankeyReplies :
          /\ ph_replies' = Append(ph_replies, [record |-> ph_i, reply |-> reply])
          /\ SankeyResume(ph_i + 1, Append(all_mapped_categories, MappedCategories(reply)))
    /\ UNCHANGED <<api_key, product_hunt_data, gh_vars, mf_vars, rss_vars, main_vars>>

NextSankey == ProcessSankeyCall \/ ProcessSankeyReply

SpecSankey == InitSankey /\ [][NextSankey]_vars

InitRss ==
    /\ MainOff
    /\ api_key \in KeyValues
    /\ oracle_calls = <<>>
    /\ GithubOff
    /\ ManifoldOff
    /\ SankeyOff
    /\ rss_data \in RssInputs
    /\ rss_pc = "called"
    /\ top_words = <<>>
    /\ word_cloud_output = None
    /\ rss_replies = <<>>
    /\ rss_result = None

\* lines 73-142: the frequency table, the credential check, the keyword call
ProcessRssCall ==
    /\ rss_pc = "called"
    /\ top_words' = TopWords(rss_data)
    /\ IF ~HasKey(api_key)
       THEN /\ rss_result' = EmptyDict
            /\ rss_pc' = "returned"
            /\ UNCHANGED oracle_calls
       ELSE /\ oracle_calls' = Append(oracle_calls,
                                      [site |-> "rss_keywords", table |-> top_words'])
            /\ rss_pc' = "awaiting_keywords"
            /\ UNCHANGED rss_result
    /\ UNCHANGED <<api_key, rss_data, word_cloud_output, rss_replies, gh_vars, mf_vars, ph_vars, main_vars>>

\* lines 143-194: json.loads of the keyword reply, then the hot-topics call;
\* or the except clause of line 206
ProcessRssKeywordsReply ==
    /\ rss_pc = "awaiting_keywords"
    /\ \E reply \in KeywordReplies :
          /\ rss_replies' = Append(rss_replies, reply)
          /\ IF ReplyRaises(reply)
             THEN /\ rss_result' = EmptyDict
                  /\ rss_pc' = "returned"
                  /\ UNCHANGED <<oracle_calls, word_cloud_output>>
             ELSE /\ word_cloud_output' = reply
                  /\ oracle_calls' = Append(oracle_calls,
                                            [site |-> "rss_hot_topics",
                                             table |-> SummarizedRssData(rss_data)])
                  /\ rss_pc' = "awaiting_topics"
                  /\ UNCHANGED rss_result
    /\ UNCHANGED <<api_key, rss_data, top_words, gh_vars, mf_vars, ph_vars, main_vars>>

\* lines 195-208
ProcessRssTopicsReply ==
    /\ rss_pc = "awaiting_topics"
    /\ \E reply \in TopicReplies :
          /\ rss_replies' = Append(rss_replies, reply)
          /\ rss_result' = FinalOutput(word_cloud_output, reply)
    /\ rss_pc' = "returned"
    /\ UNCHANGED <<api_key, oracle_calls, rss_data, top_words, word_cloud_output,
                   gh_vars, mf_vars, ph_vars, main_vars>>

NextRss == ProcessRssCall \/ ProcessRssKeywordsReply \/ ProcessRssTopicsReply

SpecRss == InitRss /\ [][NextRss]_vars

\* the three transforms that use the oracle, one of them invoked
InitOracle == InitRss \/ InitSankey \/ InitManifold

NextOracle ==
    \/ ProcessRssCall
    \/ ProcessRssKeywordsReply
    \/ ProcessRssTopicsReply
    \/ ProcessSankeyCall
    \/ ProcessSankeyReply
    \/ ProcessManifoldCall
    \/ ProcessManifoldReply

SpecOracle == InitOracle /\ [][NextOracle]_vars

(***************************************************************************)
(* A caller that keeps the list it passed in and the structure it got      *)
(* back, and changes the structure afterwards.  What such a change does to *)
(* the list is decided by which objects of the structure are objects of    *)
(* the list.                                                               *)
(***************************************************************************)
\* line 272: product.get('topics', []) is the list stored in the input record
\* when the record has the key, and a new list otherwise; the detail record
\* holds that object, not a copy of it
TopicsIsInputObject(product) == "topics" \in DOMAIN product

\* product_details[i]['topics'].append(...)
CallerAppendsTopic ==
    /\ ph_pc = "returned"
    /\ ph_result # EmptyDict
    /\ \E i \in 1..Len(ph_result.product_details) :
          /\ "added" \notin SeqRange(ph_result.product_details[i].topics)
          /\ ph_result' = [ph_result EXCEPT
                              !.product_details[i].topics = Append(@, "added")]
          /\ product_hunt_data' =
                IF TopicsIsInputObject(product_hunt_data[i])
                THEN [product_hunt_data EXCEPT ![i].topics = Append(@, "added")]
                ELSE product_hunt_data
    /\ UNCHANGED <<api_key, oracle_calls, ph_pc, ph_i, all_mapped_categories, ph_replies,
                   ph_error, gh_vars, mf_vars, rss_vars, main_vars>>

\* hoverData[i]['repositories'].clear(): the list was created at line 28 or
\* line 42 and its items at lines 33-39, from values that cannot be changed
CallerClearsRepositories ==
    /\ gh_pc = "returned"
    /\ \E i \in 1..Len(chart_data.hoverData) :
          /\ chart_data.hoverData[i].repositories # <<>>
          /\ chart_data' = [chart_data EXCEPT !.hoverData[i].repositories = <<>>]
    /\ UNCHANGED <<api_key, oracle_calls, github_data, gh_pc, gh_merged,
                   mf_vars, ph_vars, rss_vars, main_vars>>

\* data[i]['category'] = ...: the point was created at lines 307-313 or 316
CallerSetsCategory ==
    /\ mf_pc = "returned"
    /\ mf_result # EmptyDict
    /\ \E i \in 1..Len(mf_result.datasets[1].data) :
          /\ mf_result.datasets[1].data[i].category # "edited"
          /\ mf_result' = [mf_result EXCEPT !.datasets[1].data[i].category = "edited"]
    /\ UNCHANGED <<api_key, oracle_calls, predictions_data, mf_pc, mf_i, plot_data,
                   mf_replies, gh_vars, ph_vars, rss_vars, main_vars>>

\* result['keywords'] = []: the mapping was created at lines 198-201 from the
\* parsed replies
CallerClearsKeywords ==
    /\ rss_pc = "returned"
    /\ rss_result # EmptyDict
    /\ rss_result.keywords # <<>>
    /\ rss_result' = [rss_result EXCEPT !.keywords = <<>>]
    /\ UNCHANGED <<api_key, oracle_calls, rss_data, rss_pc, top_words, word_cloud_output,
                   rss_replies, gh_vars, mf_vars, ph_vars, main_vars>>

InitCaller == InitGithub \/ InitRss \/ InitSankey \/ InitManifold

NextCaller ==
    \/ ProcessGithubTrending
    \/ CallerClearsRepositories
    \/ ProcessRssCall
    \/ ProcessRssKeywordsReply
    \/ ProcessRssTopicsReply
    \/ CallerClearsKeywords
    \/ ProcessSankeyCall
    \/ ProcessSankeyReply
    \/ CallerAppendsTopic
    \/ ProcessManifoldCall
    \/ ProcessManifoldReply
    \/ CallerSetsCategory

SpecCaller == InitCaller /\ [][NextCaller]_vars

InitMain ==
    /\ api_key \in {None, "sk-key"}
    /\ oracle_calls = <<>>
    /\ GithubOff
    /\ ManifoldOff
    /\ SankeyOff
    /\ RssOff
    /\ SUPABASE_URL \in EnvValues
    /\ SUPABASE_KEY \in EnvValues
    /\ main_pc = "fetch_product_hunt"
    /\ fetch_log = <<>>
    /\ fetched_data = EmptyResults
    /\ processed_data = <<>>
    /\ local_file = None
    /\ store_ops = <<>>
    /\ main_error = None

\* one fetcher of fetch_all has returned: its list is stored under key and
\* the next fetcher, or main's first transform, is up
Fetched(key, outcome, list, next) ==
    /\ fetch_log' = Append(fetch_log, [source |-> key, outcome |-> outcome])
    /\ fetched_data' = [fetched_data EXCEPT ![key] = list]
    /\ main_pc' = next
    /\ UNCHANGED <<api_key, oracle_calls, gh_vars, mf_vars, ph_vars, rss_vars,
                   SUPABASE_URL, SUPABASE_KEY, processed_data, local_file,
                   store_ops, main_error>>

\* fetch_product_hunt: the API request, and fetch_product_hunt_rss when it
\* fails; only when the feed fails too is the list empty
FetchProductHunt ==
    /\ main_pc = "fetch_product_hunt"
    /\ \/ Fetched("product_hunt", "ok", FetchedProducts, "fetch_github_trending")
       \/ Fetched("product_hunt", "fallback", FetchedProductsRss, "fetch_github_trending")
       \/ Fetched("product_hunt", "error", FetchFailed, "fetch_github_trending")

FetchGithubTrending ==
    /\ main_pc = "fetch_github_trending"
    /\ \/ Fetched("github_trending", "ok", FetchedRepos, "fetch_rss_feeds")
       \/ Fetched("github_trending", "error", FetchFailed, "fetch_rss_feeds")

\* fetch_rss_feeds: "error" is the run in which every feed raises
FetchRssFeeds ==
    /\ main_pc = "fetch_rss_feeds"
    /\ \/ Fetched("rss_articles", "ok", FetchedArticles, "fetch_manifold_predictions")
       \/ Fetched("rss_articles", "error", FetchFailed, "fetch_manifold_predictions")

FetchManifoldPredictions ==
    /\ main_pc = "fetch_manifold_predictions"
    /\ \/ Fetched("predictions", "ok", FetchedPredictions, "process_github")
       \/ Fetched("predictions", "error", FetchFailed, "process_github")

\* what a main step leaves alone besides the transform it touches
MainFrame == UNCHANGED <<api_key, SUPABASE_URL, SUPABASE_KEY, fetch_log, fetched_data,
                         local_file, store_ops>>

\* line 53: process_github_trending is called when the list is not empty
MainCallGithub ==
    /\ main_pc = "process_github"
    /\ IF fetched_data.github_trending # <<>>
       THEN /\ github_data' = fetched_data.github_trending
            /\ gh_pc' = "called"
            /\ main_pc' = "in_github"
       ELSE /\ main_pc' = "process_rss"
            /\ UNCHANGED <<github_data, gh_pc>>
    /\ UNCHANGED <<chart_data, gh_merged, oracle_calls, mf_vars, ph_vars, rss_vars,
                   processed_data, main_error>>
    /\ MainFrame

\* line 54: the assignment of the returned chart; the callee's locals are gone
MainReturnGithub ==
    /\ main_pc = "in_github"
    /\ gh_pc \in {"returned", "raised"}
    /\ IF gh_pc = "returned"
       THEN /\ processed_data' = DictSet(processed_data, OutputKey.github_trending, chart_data)
            /\ main_pc' = "process_rss"
            /\ UNCHANGED main_error
       ELSE /\ main_pc' = "raised"
            /\ main_error' = "ZeroDivisionError"
            /\ UNCHANGED processed_data
    /\ github_data' = <<>>
    /\ gh_pc' = "off"
    /\ chart_data' = None
    /\ gh_merged' = <<>>
    /\ UNCHANGED <<oracle_calls, mf_vars, ph_vars, rss_vars>>
    /\ MainFrame

\* line 55
MainCallRss ==
    /\ main_pc = "process_rss"
    /\ IF fetched_data.rss_articles # <<>>
       THEN /\ rss_data' = fetched_data.rss_articles
            /\ rss_pc' = "called"
            /\ main_pc' = "in_rss"
       ELSE /\ main_pc' = "process_product_hunt"
            /\ UNCHANGED <<rss_data, rss_pc>>
    /\ UNCHANGED <<top_words, word_cloud_output, rss_replies, rss_result, oracle_calls,
                   gh_vars, mf_vars, ph_vars, processed_data, main_error>>
    /\ MainFrame

\* line 56
MainReturnRss ==
    /\ main_pc = "in_rss"
    /\ rss_pc = "returned"
    /\ processed_data' = DictSet(processed_data, OutputKey.rss_articles, rss_result)
    /\ main_pc' = "process_product_hunt"
    /\ rss_data' = <<>>
    /\ rss_pc' = "off"
    /\ top_words' = <<>>
    /\ word_cloud_output' = None
    /\ rss_replies' = <<>>
    /\ rss_result' = None
    /\ UNCHANGED <<oracle_calls, gh_vars, mf_vars, ph_vars, main_error>>
    /\ MainFrame

\* line 57
MainCallSankey ==
    /\ main_pc = "process_product_hunt"
    /\ IF fetched_data.product_hunt # <<>>
       THEN /\ product_hunt_data' = fetched_data.product_hunt
            /\ ph_pc' = "called"
            /\ main_pc' = "in_product_hunt"
       ELSE /\ main_pc' = "process_predictions"
            /\ UNCHANGED <<product_hunt_data, ph_pc>>
    /\ UNCHANGED <<ph_i, all_mapped_categories, ph_replies, ph_result, ph_error,
                   oracle_calls, gh_vars, mf_vars, rss_vars, processed_data, main_error>>
    /\ MainFrame

\* line 58; an exception that escapes the builder escapes main, which has no
\* try block
MainReturnSankey ==
    /\ main_pc = "in_product_hunt"
    /\ ph_pc \in {"returned", "raised"}
    /\ IF ph_pc = "returned"
       THEN /\ processed_data' = DictSet(processed_data, OutputKey.product_hunt, ph_result)
            /\ main_pc' = "process_predictions"
            /\ UNCHANGED main_error
       ELSE /\ main_pc' = "raised"
            /\ main_error' = ph_error
            /\ UNCHANGED processed_data
    /\ product_hunt_data' = <<>>
    /\ ph_pc' = "off"
    /\ ph_i' = 0
    /\ all_mapped_categories' = <<>>
    /\ ph_replies' = <<>>
    /\ ph_result' = None
    /\ ph_error' = None
    /\ UNCHANGED <<oracle_calls, gh_vars, mf_vars, rss_vars>>
    /\ MainFrame

\* line 59
MainCallManifold ==
    /\ main_pc = "process_predictions"
    /\ IF fetched_data.predictions # <<>>
       THEN /\ predictions_data' = fetched_data.predictions
            /\ mf_pc' = "called"
            /\ main_pc' = "in_predictions"
       ELSE /\ main_pc' = "save_local"
            /\ UNCHANGED <<predictions_data, mf_pc>>
    /\ UNCHANGED <<mf_i, plot_data, mf_replies, mf_result, oracle_calls,
                   gh_vars, ph_vars, rss_vars, processed_data, main_error>>
    /\ MainFrame

\* line 60
MainReturnManifold ==
    /\ main_pc = "in_predictions"
    /\ mf_pc = "returned"
    /\ processed_data' = DictSet(processed_data, OutputKey.predictions, mf_result)
    /\ main_pc' = "save_local"
    /\ predictions_data' = <<>>
    /\ mf_pc' = "off"
    /\ mf_i' = 0
    /\ plot_data' = <<>>
    /\ mf_replies' = <<>>
    /\ mf_result' = None
    /\ UNCHANGED <<oracle_calls, gh_vars, ph_vars, rss_vars, main_error>>
    /\ MainFrame

\* a variant of main that writes the local file as soon as the predictions
\* transform has been entered, without waiting for its return
SaveLocalFileMutEarly ==
    /\ main_pc \in {"save_local", "in_predictions"}
    /\ IF processed_data = <<>>
       THEN /\ main_pc' = "complete"
            /\ UNCHANGED <<local_file, main_error>>
       ELSE \/ /\ local_file' = processed_data
               /\ main_pc' = "save_remote"
               /\ UNCHANGED main_error
            \/ /\ main_pc' = "raised"
               /\ main_error' = "OSError"
               /\ UNCHANGED local_file
    /\ UNCHANGED <<api_key, oracle_calls, gh_vars, mf_vars, ph_vars, rss_vars,
                   SUPABASE_URL, SUPABASE_KEY, fetch_log, fetched_data, processed_data,
                   store_ops>>

\* lines 63-74: os.makedirs, open and json.dump, none of them inside a try
\* block; with an empty mapping both if statements (lines 63 and 77) are
\* skipped and the run is complete
SaveLocalFile ==
    /\ main_pc = "save_local"
    /\ IF processed_data = <<>>
       THEN /\ main_pc' = "complete"
            /\ UNCHANGED <<local_file, main_error>>
       ELSE \/ /\ local_file' = processed_data
               /\ main_pc' = "save_remote"
               /\ UNCHANGED main_error
            \/ /\ main_pc' = "raised"
               /\ main_error' = "OSError"
               /\ UNCHANGED local_file
    /\ UNCHANGED <<api_key, oracle_calls, gh_vars, mf_vars, ph_vars, rss_vars,
                   SUPABASE_URL, SUPABASE_KEY, fetch_log, fetched_data, processed_data,
                   store_ops>>

\* lines 77-80 and save_data_to_supabase (lines 19-39): without credentials
\* the function returns; create_client may raise before any request is made;
\* insert(...).execute() may raise; the except clause re-raises
SaveDataToSupabase ==
    /\ main_pc = "save_remote"
    /\ IF NoSupabase(SUPABASE_URL, SUPABASE_KEY)
       THEN /\ main_pc' = "complete"
            /\ UNCHANGED <<store_ops, main_error>>
       ELSE \/ /\ main_pc' = AfterStoreError
               /\ main_error' = "create_client"
               /\ UNCHANGED store_ops
            \/ /\ store_ops' = Append(store_ops, PulseRow(processed_data))
               /\ main_pc' = AfterStoreError
               /\ main_error' = "insert"
            \/ /\ store_ops' = Append(store_ops, PulseRow(processed_data))
               /\ main_pc' = "complete"
               /\ UNCHANGED main_error
    /\ UNCHANGED <<api_key, oracle_calls, gh_vars, mf_vars, ph_vars, rss_vars,
                   SUPABASE_URL, SUPABASE_KEY, fetch_log, fetched_data, processed_data,
                   local_file>>

NextMain ==
    \/ FetchProductHunt
    \/ FetchGithubTrending
    \/ FetchRssFeeds
    \/ FetchManifoldPredictions
    \/ MainCallGithub
    \/ ProcessGithubTrending
    \/ MainReturnGithub
    \/ MainCallRss
    \/ ProcessRssCall
    \/ ProcessRssKeywordsReply
    \/ ProcessRssTopicsReply
    \/ MainReturnRss
    \/ MainCallSankey
    \/ ProcessSankeyCall
    \/ ProcessSankeyReply
    \/ MainReturnSankey
    \/ MainCallManifold
    \/ ProcessManifoldCall
    \/ ProcessManifoldReply
    \/ MainReturnManifold
    \/ SaveLocalFile
    \/ SaveDataToSupabase

SpecMain == InitMain /\ [][NextMain]_vars

(***************************************************************************)
(* Reference notions for the claims, taken from the inputs alone.          *)
(***************************************************************************)
\* the oracle credential is absent: unset, or set to the empty string
CredentialAbsent == api_key \in {None, ""}

LanguageOf(repo) == IF "language" \in DOMAIN repo THEN repo.language ELSE "Unknown"

KnownCount(data) == Cardinality({i \in 1..Len(data) : LanguageOf(data[i]) # "Unknown"})

CountLang(data, lang) == Cardinality({i \in 1..Len(data) : LanguageOf(data[i]) = lang})

RECURSIVE SumSeq(_, _)
SumSeq(s, n) == IF n = 0 THEN 0 ELSE SumSeq(s, n - 1) + s[n]

ExampleInput == Expand(ExampleBlocks, Len(ExampleBlocks))

(***************************************************************************)
(* Claims about process_github_trending (SpecGithub).                      *)
(***************************************************************************)
\* C1: for every input list, the repo_count values of all output buckets
\* (datasets[0].data, 'Other' included) add up to the number of input records
\* whose language is not 'Unknown'.
C1_SumEqualsKnown ==
    gh_pc = "returned" =>
        SumSeq(chart_data.data, Len(chart_data.data)) = KnownCount(github_data)

\* C2: every output bucket other than 'Other' holds at least 2% of all input
\* records (the 'Unknown' ones counted in the total), every language merged
\* into 'Other' held strictly less than 2% of them, and the example of 60
\* Python, 25 Go, 10 Rust and 5 Unknown records yields exactly the buckets
\* Python(60), Go(25), Rust(10).
C2_ShareThreshold ==
    gh_pc = "returned" =>
        /\ \A i \in 1..Len(chart_data.labels) :
              chart_data.labels[i] # "Other" =>
                  /\ chart_data.data[i] * 50 >= Len(github_data)
                  /\ chart_data.data[i] = CountLang(github_data, chart_data.labels[i])
        /\ \A j \in 1..Len(gh_merged) :
              /\ CountLang(github_data, gh_merged[j]) >= 1
              /\ CountLang(github_data, gh_merged[j]) * 50 < Len(github_data)
        /\ github_data = ExampleInput =>
              /\ chart_data.labels = <<"Python", "Go", "Rust">>
              /\ chart_data.data = <<60, 25, 10>>

\* C2 witness: a run that merged a language into 'Other' and kept another one
\* that holds exactly 2% of the records.
C2_Witness ==
    /\ gh_pc = "returned"
    /\ gh_merged # <<>>
    /\ \E i \in 1..Len(chart_data.labels) :
          /\ chart_data.labels[i] # "Other"
          /\ chart_data.data[i] * 50 >= Len(github_data)

\* C11: process_github_trending never divides by zero, and for the empty input
\* list, as for a list whose records are all 'Unknown', it returns an empty
\* result: no labels and no bucket counts.
C11_NoDivisionByZero ==
    /\ gh_pc # "raised"
    /\ (gh_pc = "returned" /\ KnownCount(github_data) = 0) =>
           /\ chart_data.labels = <<>>
           /\ chart_data.data = <<>>
           /\ chart_data.hoverData = <<>>

\* C11 witness: the transform has returned for a non-empty list whose records
\* are all 'Unknown', some by value and some for want of the key.
C11_Witness ==
    /\ gh_pc = "returned"
    /\ Len(github_data) > 1
    /\ KnownCount(github_data) = 0
    /\ \E i \in 1..Len(github_data) : "language" \notin DOMAIN github_data[i]
    /\ \E i \in 1..Len(github_data) : "language" \in DOMAIN github_data[i]
    /\ chart_data.labels = <<>>

(***************************************************************************)
(* Claims about process_manifold_predictions_for_bubble_plot               *)
(* (SpecManifold).                                                         *)
(***************************************************************************)
\* the points of the returned structure: datasets[0].data
ManifoldPoints == mf_result.datasets[1].data

\* C3: with the oracle credential configured, whatever the oracle does for
\* each record, the returned datasets[0].data holds exactly one point per input
\* record, point i being the one of record i (none dropped, none duplicated),
\* and every point's category is one of the 8 prediction categories.
C3_OnePointPerRecord ==
    /\ (mf_pc = "returned" /\ ~CredentialAbsent) =>
          /\ Len(ManifoldPoints) = Len(predictions_data)
          /\ \A i \in 1..Len(ManifoldPoints) :
                /\ ManifoldPoints[i].label = Get(predictions_data[i], "title", "")
                /\ \E k \in 1..8 : ManifoldPoints[i].category = CORE_PREDICTION_CATEGORIES[k]
    /\ (mf_pc = "awaiting") =>
          /\ Len(plot_data) = mf_i - 1
          /\ \A i \in 1..Len(plot_data) :
                \E k \in 1..8 : plot_data[i].category = CORE_PREDICTION_CATEGORIES[k]

\* C3 witness: a returned batch of two records, one whose call raised and one
\* whose reply named a category outside the enumeration.
C3_Witness ==
    /\ mf_pc = "returned"
    /\ ~CredentialAbsent
    /\ Len(predictions_data) = 2
    /\ mf_replies[1] = ObjectReply([category |-> "Sports"])
    /\ mf_replies[2].kind = "raise"

\* C4: a prediction whose oracle call raised is in the returned
\* datasets[0].data, at its own position, as the point x = 0.5, y = 0,
\* category = 'Other', whatever its probability and volume; and every record
\* after it got its oracle call and its point.
C4_RaisedRecordKept ==
    /\ (mf_pc = "returned" /\ ~CredentialAbsent) =>
          /\ Len(mf_replies) = Len(predictions_data)
          /\ Len(oracle_calls) = Len(predictions_data)
          /\ Len(ManifoldPoints) = Len(predictions_data)
          /\ \A i \in 1..Len(mf_replies) :
                mf_replies[i].kind = "raise" =>
                    /\ ManifoldPoints[i].x = 50
                    /\ ManifoldPoints[i].y = 0
                    /\ ManifoldPoints[i].category = "Other"
                    /\ ManifoldPoints[i].label = Get(predictions_data[i], "title", "")
    /\ (mf_pc = "awaiting") =>
          /\ Len(mf_replies) = mf_i - 1
          /\ Len(oracle_calls) = mf_i
          /\ oracle_calls[mf_i].record = mf_i

\* C4 witness: the call for a record with probability 0.7 and volume 1200
\* raised, and the record after it was categorized as 'AI'.
C4_Witness ==
    /\ mf_pc = "returned"
    /\ Len(mf_replies) = 2
    /\ mf_replies[1].kind = "raise"
    /\ Get(predictions_data[1], "probability_raw", 50) = 70
    /\ Get(predictions_data[1], "volume", 0) = 1200
    /\ ManifoldPoints[1].x = 50
    /\ ManifoldPoints[2].category = "AI"

(***************************************************************************)
(* Claims about process_product_hunt_for_sankey (SpecSankey).              *)
(***************************************************************************)
\* the links of the returned structure
EmittedLinks == ph_result.sankey_data.links

\* the oracle call itself failed: it raised, or its output cannot be parsed
CallFailed(reply) == reply.kind \in {"raise", "unparseable"}

\* C6: in every output of the Sankey builder each unordered pair of categories
\* is represented by at most one link (never both (A,B) and (B,A)), and no
\* link joins a category to itself.
C6_OneLinkPerPair ==
    (ph_pc = "returned" /\ ~CredentialAbsent) =>
        /\ \A a, b \in 1..Len(EmittedLinks) :
              a # b => {EmittedLinks[a].source, EmittedLinks[a].target}
                         # {EmittedLinks[b].source, EmittedLinks[b].target}
        /\ \A a \in 1..Len(EmittedLinks) : EmittedLinks[a].source # EmittedLinks[a].target

\* C6 witness: two products were assigned the same two categories in opposite
\* orders, and the output holds the one link between them, with value 2.
C6_Witness ==
    /\ ph_pc = "returned"
    /\ all_mapped_categories = << <<"AI/ML", "Design">>, <<"Design", "AI/ML">> >>
    /\ Len(EmittedLinks) = 1
    /\ EmittedLinks[1].value = 2

\* C7: if the oracle call for a record fails (raises, or returns output that
\* cannot be parsed), that record is assigned exactly the single category
\* 'Other', it contributes to no link, every following record is still
\* processed, and the batch completes and returns its result.
C7_FailedRecordBatchCompletes ==
    \A k \in 1..Len(ph_replies) :
        CallFailed(ph_replies[k].reply) =>
            /\ k <= Len(all_mapped_categories) => all_mapped_categories[k] = <<"Other">>
            /\ ph_pc # "raised"
            /\ ph_pc = "returned" =>
                  /\ Len(ph_replies) = Len(all_mapped_categories)
                  /\ NextAsked(product_hunt_data, ph_replies[Len(ph_replies)].record + 1) = 0
                  /\ \A a \in 1..Len(EmittedLinks) :
                        EmittedLinks[a].value <=
                            Cardinality({m \in 1..Len(ph_replies) :
                                            ~CallFailed(ph_replies[m].reply)})

\* C8: whatever JSON object the oracle returns for a record (keys that are not
\* canonical category names included), the builder returns normally, no
\* exception escapes, the emitted nodes are the N canonical categories with
\* node i carrying index i, and every link's source and target are indices of
\* emitted nodes.
C8_UntrustedReplyNeverRaises ==
    /\ ph_pc # "raised"
    /\ ph_error = None
    /\ (ph_pc = "returned" /\ ~CredentialAbsent) =>
          /\ Len(ph_result.sankey_data.nodes) = 15
          /\ \A i \in 1..15 :
                /\ ph_result.sankey_data.nodes[i].node = i - 1
                /\ ph_result.sankey_data.nodes[i].name = CORE_CATEGORIES[i]
          /\ \A a \in 1..Len(EmittedLinks) :
                /\ EmittedLinks[a].source \in 0..14
                /\ EmittedLinks[a].target \in 0..14

(***************************************************************************)
(* Claims about process_rss_feeds_for_wordcloud (SpecRss).                 *)
(***************************************************************************)
\* C9: every candidate token of the frequency table passed to the oracle
\* consists only of lowercase alphabetic characters, is longer than 2
\* characters and is not in the fixed stop-word set.
C9_CandidatesFiltered ==
    \A k \in 1..Len(oracle_calls) :
        oracle_calls[k].site = "rss_keywords" =>
            /\ oracle_calls[k].table = top_words
            /\ \A e \in 1..Len(oracle_calls[k].table) :
                  LET word == oracle_calls[k].table[e][1]
                  IN  /\ \A c \in 1..Len(word) : \E l \in 1..26 : word[c] = LowerLetters[l]
                      /\ Len(word) > 2
                      /\ AsString(word) \notin STOP_WORDS
                      /\ oracle_calls[k].table[e][2] >= 1

\* C9 witness: the keyword call was issued with a non-empty table for a list
\* whose first article holds a capitalised stop word ("The"), a token with a
\* hyphen and a digit ("GPT-4") and a two-letter word ("AI").
C9_Witness ==
    /\ rss_pc = "awaiting_keywords"
    /\ Len(rss_data) >= 1
    /\ rss_data[1] # EmptyDict
    /\ Get(rss_data[1], "title", <<>>) = <<"T", "h", "e", " ", "G", "P", "T", "-", "4", " ", "e", "r", "a">>
    /\ Get(rss_data[1], "description", <<>>) = <<"A", "I", " ", "i", "s", " ", "n", "e", "w">>
    /\ Len(oracle_calls[1].table) >= 2

\* C10: if the keyword call or the hot-topics call raises or returns
\* unparseable output, the extractor returns the empty result (no partial
\* keywords), no exception escapes, nothing is retried (at most two oracle
\* calls, the keyword call first), and the hot-topics call is not issued after
\* the keyword call has failed.
C10_OracleFailureEmptiesResult ==
    /\ rss_pc \in {"called", "awaiting_keywords", "awaiting_topics", "returned"}
    /\ Len(oracle_calls) <= 2
    /\ Len(oracle_calls) <= Len(rss_replies) + 1
    /\ Len(oracle_calls) >= 1 => oracle_calls[1].site = "rss_keywords"
    /\ Len(oracle_calls) = 2 => oracle_calls[2].site = "rss_hot_topics"
    /\ (Len(rss_replies) >= 1 /\ CallFailed(rss_replies[1])) =>
          /\ rss_pc = "returned"
          /\ rss_result = EmptyDict
          /\ Len(oracle_calls) = 1
    /\ (Len(rss_replies) = 2 /\ CallFailed(rss_replies[2])) =>
          /\ rss_pc = "returned"
          /\ rss_result = EmptyDict

\* C10 witness: the keyword call returned keywords, the hot-topics call
\* returned unparseable output, and the result is empty.
C10_Witness ==
    /\ rss_pc = "returned"
    /\ Len(rss_replies) = 2
    /\ rss_replies[1].kind = "object"
    /\ "keywords" \in DOMAIN rss_replies[1].obj
    /\ rss_replies[2].kind = "unparseable"
    /\ rss_result = EmptyDict

(***************************************************************************)
(* Claims about the three oracle-dependent transforms (SpecOracle).        *)
(***************************************************************************)
\* C5: with the oracle credential absent, the keyword extractor, the Sankey
\* builder and the prediction categorizer each return the empty structure for
\* every input list, no exception escapes, and no oracle call is issued.
C5_NoCredentialDegrades ==
    CredentialAbsent =>
        /\ oracle_calls = <<>>
        /\ rss_pc \in {"off", "called", "returned"}
        /\ ph_pc \in {"off", "called", "returned"}
        /\ mf_pc \in {"off", "called", "returned"}
        /\ ph_error = None
        /\ rss_pc = "returned" => rss_result = EmptyDict
        /\ ph_pc = "returned" => ph_result = EmptyDict
        /\ mf_pc = "returned" => mf_result = EmptyDict

\* C5 witness: without the credential the keyword extractor returned the empty
\* structure for a list from which it had computed candidate tokens.
C5_Witness ==
    /\ CredentialAbsent
    /\ rss_pc = "returned"
    /\ top_words # <<>>
    /\ rss_result = EmptyDict
    /\ oracle_calls = <<>>

(***************************************************************************)
(* Claims about main and fetch_all (SpecMain).                             *)
(***************************************************************************)
\* the run of main is over
MainOver == main_pc \in {"complete", "raised"}

\* the record-store credential is absent: the URL or the key is unset or empty
StoreCredentialAbsent == SUPABASE_URL \in {None, ""} \/ SUPABASE_KEY \in {None, ""}

Sources == {"product_hunt", "github_trending", "rss_articles", "predictions"}

KeySet(d) == {d[i][1] : i \in 1..Len(d)}

\* the sources whose fetch ended in the fetcher's except clause
FailedSources == {fetch_log[i].source : i \in {j \in 1..Len(fetch_log) : fetch_log[j].outcome = "error"}}

\* C12: persistence failures are surfaced once and never retried.  A failure
\* of the local file write ends main in error, and no request is ever made to
\* the record store; a failure of the remote insert ends main in error too
\* (never 'Workflow complete'), with the local file already written, and the
\* insert is not made again.
C12_PersistenceFailuresSurface ==
    /\ main_error = "OSError" =>
          /\ main_pc = "raised"
          /\ local_file = None
          /\ store_ops = <<>>
    /\ main_error \in {"create_client", "insert"} =>
          /\ main_pc = "raised"
          /\ local_file = processed_data
          /\ Len(store_ops) = (IF main_error = "insert" THEN 1 ELSE 0)
    /\ Len(store_ops) <= 1

\* C12 witness: the insert failed after the local file was written, and the
\* run ended in error.
C12_Witness ==
    /\ main_error = "insert"
    /\ main_pc = "raised"
    /\ local_file # None
    /\ Len(store_ops) = 1

C17_AsStated ==
    /\ Len(store_ops) <= 1
    /\ \A k \in 1..Len(store_ops) : store_ops[k].op = "insert"
    /\ (MainOver /\ processed_data # <<>> /\ ~StoreCredentialAbsent) => Len(store_ops) = 1
    /\ StoreCredentialAbsent => (store_ops = <<>> /\ main_pc # "raised")

\* C17: at most one request is made to the record store in a run, and it is
\* the insert of one row that holds the whole output mapping; exactly one
\* insert is attempted when the run is over, the local file was written, both
\* credentials are present and create_client returned; when the URL or the
\* key is absent no insert is attempted, and a run that wrote its local file
\* does not raise.
C17_SingleInsert ==
    /\ Len(store_ops) <= 1
    /\ \A k \in 1..Len(store_ops) : store_ops[k] = PulseRow(processed_data)
    /\ (MainOver /\ local_file # None /\ ~StoreCredentialAbsent
           /\ main_error # "create_client") => Len(store_ops) = 1
    /\ StoreCredentialAbsent =>
          /\ store_ops = <<>>
          /\ local_file # None => main_pc # "raised"

\* C17 witness: a complete run that made its one insert; the key is present.
C17_Witness ==
    /\ main_pc = "complete"
    /\ ~StoreCredentialAbsent
    /\ Len(store_ops) = 1
    /\ store_ops[1].op = "insert"

(***************************************************************************)
(* Claims about the output and the assignments of                          *)
(* process_product_hunt_for_sankey (SpecSankey).                           *)
(***************************************************************************)
\* the builder is over: it returned, or an exception escaped it
SankeyOver == ph_pc \in {"returned", "raised"}

\* the links a caller receives: none when the builder raised
LinksOut == IF ph_pc = "returned" /\ ~CredentialAbsent THEN EmittedLinks ELSE <<>>

\* the categories assigned to input record i: those of the list appended for
\* it, none for a record that was skipped
Assigned(i) ==
    IF \E k \in 1..Len(all_mapped_categories) : ph_replies[k].record = i
    THEN all_mapped_categories[CHOOSE k \in 1..Len(all_mapped_categories) :
                                   ph_replies[k].record = i]
    ELSE <<>>

\* the names of the two nodes a link joins
LinkNames(link) == {CORE_CATEGORIES[link.source + 1], CORE_CATEGORIES[link.target + 1]}

\* the number of records whose assigned categories are the two of pair
PairCount(pair) ==
    Cardinality({k \in 1..Len(all_mapped_categories) :
                    /\ Len(all_mapped_categories[k]) = 2
                    /\ SeqRange(all_mapped_categories[k]) = pair})

\* the pairs assigned to at least one record
AssignedPairs ==
    {SeqRange(all_mapped_categories[k]) :
        k \in {m \in 1..Len(all_mapped_categories) : Len(all_mapped_categories[m]) = 2}}

\* the score the reply obj gives to category c
ScoreOf(obj, c) == DictGet(obj, c).v

\* C14: every emitted link is annotated with the originating records (title
\* and short tagline) of its category pair, and lists as many of them as the
\* link's value.
C14_LinksAnnotated ==
    (ph_pc = "returned" /\ ~CredentialAbsent) =>
        \A a \in 1..Len(EmittedLinks) :
            \E f \in DOMAIN EmittedLinks[a] \ {"source", "target", "value"} :
                Len(EmittedLinks[a][f]) = EmittedLinks[a].value

\* C15: besides the node list and the link list, the output holds the
\* per-record category assignments: for every input record, the 0, 1 or 2
\* categories assigned to it, either in a list of its own or in the record's
\* entry of product_details.
C15_AssignmentsReturned ==
    (ph_pc = "returned" /\ ~CredentialAbsent) =>
        \/ \E f \in DOMAIN ph_result \ {"sankey_data", "product_details"} :
              ph_result[f] = [i \in 1..Len(product_hunt_data) |-> Assigned(i)]
        \/ \A i \in 1..Len(product_hunt_data) :
              \E f \in DOMAIN ph_result.product_details[i] \ {"title", "url", "topics"} :
                  ph_result.product_details[i][f] = Assigned(i)

\* C18: for each record whose oracle call returned a category-to-score
\* mapping, the assigned categories are the at most two highest-scoring ones
\* among those with score > 3: every assigned category scores > 3, at most
\* two are assigned, and an unassigned category that scores > 3 is left out
\* only when two categories scoring at least as much are assigned.
C18_TopTwoAboveThreshold ==
    \A k \in 1..Len(all_mapped_categories) :
        LET reply == ph_replies[k].reply
            cats  == all_mapped_categories[k]
        IN  (reply.kind = "object" /\ ~ScoresRaise(reply.obj)) =>
                /\ Len(cats) <= 2
                /\ \A i, j \in 1..Len(cats) : i # j => cats[i] # cats[j]
                /\ \A i \in 1..Len(cats) :
                      /\ DictHas(reply.obj, cats[i])
                      /\ ScoreOf(reply.obj, cats[i]) > 3
                /\ \A u \in KeySet(reply.obj) \ SeqRange(cats) :
                      ScoreOf(reply.obj, u) > 3 =>
                          /\ Len(cats) = 2
                          /\ \A i \in 1..2 : ScoreOf(reply.obj, cats[i]) >= ScoreOf(reply.obj, u)

\* C18 witness: one record was assigned its two best categories while a third
\* category scoring > 3 was left out, and another record, whose only score is
\* below the threshold, was assigned none.
C18_Witness ==
    /\ ph_pc = "returned"
    /\ Len(all_mapped_categories) = 2
    /\ all_mapped_categories[1] = <<"AI/ML", "Design">>
    /\ ph_replies[1].reply.kind = "object"
    /\ DictHas(ph_replies[1].reply.obj, "Other")
    /\ all_mapped_categories[2] = <<>>
    /\ ph_replies[2].reply.kind = "object"

\* C18, one assigned category: the mapping scores three categories, one of
\* them exactly 3 and one below.
C18_WitnessOne ==
    /\ ph_pc = "returned"
    /\ Len(all_mapped_categories) >= 1
    /\ all_mapped_categories[1] = <<"AI/ML">>
    /\ ph_replies[1].reply.kind = "object"
    /\ DictHas(ph_replies[1].reply.obj, "Design")

\* C19: once the builder is over, for every unordered pair of distinct
\* categories a link is emitted iff at least one record was assigned the
\* pair, its value is the number of those records, and the link values add
\* up to the number of records with two assigned categories (records with
\* fewer contribute to no link).
C19_LinkValuesCountRecords ==
    (SankeyOver /\ ~CredentialAbsent) =>
        /\ \A pair \in AssignedPairs :
              \E a \in 1..Len(LinksOut) :
                  /\ LinkNames(LinksOut[a]) = pair
                  /\ LinksOut[a].value = PairCount(pair)
        /\ \A a \in 1..Len(LinksOut) :
              /\ LinkNames(LinksOut[a]) \in AssignedPairs
              /\ LinksOut[a].value = PairCount(LinkNames(LinksOut[a]))
        /\ SumSeq([a \in 1..Len(LinksOut) |-> LinksOut[a].value], Len(LinksOut))
              = Cardinality({k \in 1..Len(all_mapped_categories) :
                                Len(all_mapped_categories[k]) = 2})

\* C19 on the runs that return: the same statement with the runs that end in
\* the KeyError of lines 259-260 left out.
C19_OnReturn == ph_pc = "returned" => C19_LinkValuesCountRecords

(***************************************************************************)
(* Claims about the result of process_rss_feeds_for_wordcloud (SpecRss).   *)
(***************************************************************************)
\* C16: whenever both oracle calls return JSON objects, the result has
\* exactly the keys 'keywords' and 'hot_topics'; the list under a key is the
\* one the oracle returned under it, and the empty list when the reply lacks
\* the key, whatever the other reply holds.
C16_MissingKeysDefault ==
    (rss_pc = "returned" /\ Len(rss_replies) = 2
        /\ rss_replies[1].kind = "object" /\ rss_replies[2].kind = "object") =>
        LET keywords_obj == rss_replies[1].obj
            topics_obj   == rss_replies[2].obj
        IN  /\ DOMAIN rss_result = {"keywords", "hot_topics"}
            /\ rss_result.keywords =
                  (IF "keywords" \in DOMAIN keywords_obj THEN keywords_obj.keywords ELSE <<>>)
            /\ rss_result.hot_topics =
                  (IF "hot_topics" \in DOMAIN topics_obj THEN topics_obj.hot_topics ELSE <<>>)

\* C16 witness: the keyword reply lacks 'keywords', the topics reply has
\* 'hot_topics'; the result has an empty keyword list beside the oracle's
\* topics.
C16_Witness ==
    /\ rss_pc = "returned"
    /\ Len(rss_replies) = 2
    /\ rss_replies[1].kind = "object"
    /\ "keywords" \notin DOMAIN rss_replies[1].obj
    /\ rss_replies[2].kind = "object"
    /\ "hot_topics" \in DOMAIN rss_replies[2].obj
    /\ rss_result.keywords = <<>>
    /\ rss_result.hot_topics = rss_replies[2].obj.hot_topics
    /\ rss_result.hot_topics # <<>>

(***************************************************************************)
(* Claims about the 'Other' bucket of process_github_trending (SpecGithub).*)
(***************************************************************************)
\* the sum of field over the records data[lo..hi] whose language is in langs
RECURSIVE SumField(_, _, _, _, _)
SumField(data, langs, field, lo, hi) ==
    IF lo > hi THEN 0
    ELSE IF lo = hi
    THEN (IF LanguageOf(data[lo]) \in langs THEN Get(data[lo], field, 0) ELSE 0)
    ELSE LET mid == (lo + hi) \div 2
         IN  SumField(data, langs, field, lo, mid) + SumField(data, langs, field, mid + 1, hi)

\* the languages of the records, 'Unknown' left out
KnownLanguages(data) == {LanguageOf(data[i]) : i \in 1..Len(data)} \ {"Unknown"}

\* the summaries of the records of language lang, in input order
ReposOf(data, lang) ==
    LET recs == SelectSeq(data, LAMBDA repo : LanguageOf(repo) = lang)
    IN  [i \in 1..Len(recs) |-> RepoSummary(recs[i])]

\* the summaries of the records of the first n languages of langs
RECURSIVE ReposOfAll(_, _, _)
ReposOfAll(data, langs, n) ==
    IF n = 0 THEN <<>> ELSE ReposOfAll(data, langs, n - 1) \o ReposOf(data, langs[n])

\* the position of the bucket labelled 'Other', 0 when there is none
OtherIndex ==
    IF \E i \in 1..Len(chart_data.labels) : chart_data.labels[i] = "Other"
    THEN CHOOSE i \in 1..Len(chart_data.labels) : chart_data.labels[i] = "Other"
    ELSE 0

\* the statement of C20 about a returned chart
OtherBucketIsSumOfMerged ==
    LET hover  == chart_data.hoverData
        merged == SeqRange(gh_merged)
        n      == Len(github_data)
    IN  /\ (OtherIndex # 0) <=> (gh_merged # <<>>)
        /\ OtherIndex # 0 =>
              /\ chart_data.data[OtherIndex] =
                    Cardinality({i \in 1..n : LanguageOf(github_data[i]) \in merged})
              /\ hover[OtherIndex].total_stars = SumField(github_data, merged, "stars", 1, n)
              /\ hover[OtherIndex].stars_today = SumField(github_data, merged, "stars_today", 1, n)
              /\ hover[OtherIndex].repositories = ReposOfAll(github_data, gh_merged, Len(gh_merged))
        /\ SumSeq([i \in 1..Len(hover) |-> hover[i].total_stars], Len(hover))
              = SumField(github_data, KnownLanguages(github_data), "stars", 1, n)
        /\ SumSeq([i \in 1..Len(hover) |-> hover[i].stars_today], Len(hover))
              = SumField(github_data, KnownLanguages(github_data), "stars_today", 1, n)

\* C20: the 'Other' bucket exists iff at least one language had a share
\* strictly below 2%; its repo_count, total_stars and stars_today are the sums
\* of those of the merged languages (sums over the set of merged languages,
\* which no merge order can change) and its repositories list is the
\* concatenation of theirs; and the totals of stars and of stars_today over
\* all output buckets equal the totals over the input records with a known
\* language.
C20_OtherBucketIsSumOfMerged == gh_pc = "returned" => OtherBucketIsSumOfMerged

\* C20 on the inputs without a language literally named 'Other'.
C20_WithoutLiteralOther ==
    (gh_pc = "returned" /\ "Other" \notin KnownLanguages(github_data)) =>
        OtherBucketIsSumOfMerged

(***************************************************************************)
(* Claims about the frequency table of process_rss_feeds_for_wordcloud     *)
(* (SpecRss).                                                              *)
(***************************************************************************)
\* the filtered tokens of the concatenated title+description text, in order
FilteredTokens(data) == SelectSeq(SplitWords(CleanedText(AllText(data))), KeepWord)

\* the number of occurrences of token among tokens
Occurrences(tokens, token) == Cardinality({i \in 1..Len(tokens) : tokens[i] = token})

\* the statement of C21 about a frequency table
TableIsTopFifty(table, tokens) ==
    LET distinct == SeqRange(tokens)
        included == {table[e][1] : e \in 1..Len(table)}
    IN  /\ Len(table) = (IF Cardinality(distinct) < 50 THEN Cardinality(distinct) ELSE 50)
        /\ Cardinality(included) = Len(table)
        /\ \A e \in 1..Len(table) :
              /\ table[e][1] \in distinct
              /\ table[e][2] = Occurrences(tokens, table[e][1])
        /\ \A e \in 1..(Len(table) - 1) : table[e][2] >= table[e + 1][2]
        /\ \A t \in distinct \ included :
              \A e \in 1..Len(table) : Occurrences(tokens, t) <= table[e][2]

\* C21: the frequency table handed to the oracle has min(50, number of
\* distinct filtered tokens) entries; each entry is a distinct token with its
\* number of occurrences in the concatenated text; the counts do not
\* increase along the table; and no omitted token occurs more often than an
\* included one.
C21_TableIsTopFifty ==
    \A k \in 1..Len(oracle_calls) :
        oracle_calls[k].site = "rss_keywords" =>
            \A tokens \in {FilteredTokens(rss_data)} :
                TableIsTopFifty(oracle_calls[k].table, tokens)

\* C21 witness: the text holds 52 distinct tokens, the table handed to the
\* oracle holds 50, led by the two tokens that occur twice, which are the
\* last of the text; two tokens are omitted.
C21_Witness ==
    /\ rss_pc = "awaiting_keywords"
    /\ rss_data = << [title |-> LongTitle] >>
    /\ Len(oracle_calls[1].table) = 50
    /\ oracle_calls[1].table[1] = <<Token(DistinctTokens - 1), 2>>
    /\ oracle_calls[1].table[2] = <<Token(DistinctTokens), 2>>
    /\ oracle_calls[1].table[3] = <<Token(1), 1>>

(***************************************************************************)
(* C22: the order of main's steps.                                         *)
(***************************************************************************)
\* the order of the fetchers in fetch_all, and of the transforms in main
FetchOrder == <<"product_hunt", "github_trending", "rss_articles", "predictions">>

TransformOrder == <<"github_trending", "rss_articles", "product_hunt", "predictions">>

\* the transforms that have been called and have not yet returned to main
Running ==
    {t \in Sources : [github_trending |-> gh_pc, rss_articles |-> rss_pc,
                      product_hunt |-> ph_pc, predictions |-> mf_pc][t] # "off"}

\* main is at the if statement of the n-th transform, or inside that transform
AtTransform(n) ==
    main_pc = <<"process_github", "process_rss", "process_product_hunt",
                "process_predictions">>[n]
       \/ main_pc = <<"in_github", "in_rss", "in_product_hunt", "in_predictions">>[n]

InTransform(n) ==
    main_pc = <<"in_github", "in_rss", "in_product_hunt", "in_predictions">>[n]

FetchStage ==
    main_pc \in {"fetch_product_hunt", "fetch_github_trending", "fetch_rss_feeds",
                 "fetch_manifold_predictions"}

\* C22: a run of main is strictly sequential.  While a fetch is outstanding no
\* transform has started; once the fetches are over all four have completed,
\* in the order of fetch_all; at most one transform runs at a time, and only
\* while main is inside its call; the transforms' results are assigned in the
\* order GitHub, RSS, Product Hunt, predictions, none before main has reached
\* it; the local file is written only when no transform runs and every
\* transform is behind main; and a remote insert is attempted only after the
\* local file has been written.
C22_StrictlySequential ==
    /\ FetchStage => /\ Running = {}
                     /\ processed_data = <<>>
                     /\ \A i \in 1..Len(fetch_log) : fetch_log[i].source = FetchOrder[i]
                     /\ Len(fetch_log) < Len(FetchOrder)
    /\ ~FetchStage => [i \in 1..Len(fetch_log) |-> fetch_log[i].source] = FetchOrder
    /\ Cardinality(Running) <= 1
    /\ \A n \in 1..Len(TransformOrder) :
          /\ TransformOrder[n] \in Running => InTransform(n)
          /\ AtTransform(n) =>
                \A m \in n..Len(TransformOrder) :
                    OutputKey[TransformOrder[m]] \notin KeySet(processed_data)
    /\ \A i, j \in 1..Len(processed_data) :
          i < j => \E n, m \in 1..Len(TransformOrder) :
                      /\ n < m
                      /\ processed_data[i][1] = OutputKey[TransformOrder[n]]
                      /\ processed_data[j][1] = OutputKey[TransformOrder[m]]
    /\ local_file # None => /\ Running = {}
                            /\ main_pc \in {"save_remote", "complete", "raised"}
    /\ main_pc \in {"save_local", "save_remote"} => Running = {}
    /\ store_ops # <<>> => /\ local_file # None
                           /\ main_pc \in {"complete", "raised"}

\* C22 witness: a run in which all four transforms ran and returned, the
\* local file was written and the row was inserted.
C22_Witness ==
    /\ main_pc = "complete"
    /\ DictKeys(processed_data) = [n \in 1..4 |-> OutputKey[TransformOrder[n]]]
    /\ local_file = processed_data
    /\ Len(store_ops) = 1
    /\ Len(oracle_calls) > 0

(***************************************************************************)
(* C23: the oracle calls of the two per-record loops (SpecOracle).         *)
(***************************************************************************)
\* the input records the calls made so far were made for, in call order
CallRecords == [k \in 1..Len(oracle_calls) |-> oracle_calls[k].record]

\* the products the loop of lines 222-241 does not skip
WithTopics == {i \in 1..Len(product_hunt_data) : Get(product_hunt_data[i], "topics", <<>>) # <<>>}

\* the calls of the prediction loop: one per record, in input order, each
\* made after the reply to the one before it, none repeated
ManifoldCallsInOrder ==
    (mf_pc # "off" /\ ~CredentialAbsent) =>
        /\ \A k \in 1..Len(oracle_calls) :
              oracle_calls[k].site = "manifold" /\ oracle_calls[k].record = k
        /\ Len(mf_replies) = Len(oracle_calls) - (IF mf_pc = "awaiting" THEN 1 ELSE 0)
        /\ mf_pc = "returned" => Len(oracle_calls) = Len(predictions_data)

\* C23 as stated: in both loops the k-th call is the call for input record k,
\* each call is made after the reply to the call before it, and a batch that
\* is over has made as many calls as it has input records, whatever the
\* records' fields.
C23_AsStated ==
    /\ ManifoldCallsInOrder
    /\ (ph_pc # "off" /\ ~CredentialAbsent) =>
          /\ \A k \in 1..Len(oracle_calls) :
                oracle_calls[k].site = "sankey" /\ oracle_calls[k].record = k
          /\ Len(ph_replies) = Len(oracle_calls) - (IF ph_pc = "awaiting" THEN 1 ELSE 0)
          /\ SankeyOver => Len(oracle_calls) = Len(product_hunt_data)

\* C23: with the oracle credential configured, the prediction loop issues
\* exactly one call per input record and the Sankey loop exactly one call per
\* input record whose topics list is present and not empty (a record without
\* topics is passed over without a call); the calls follow the input order,
\* each is made after the reply to the one before it, and no record is asked
\* about twice, whether its call failed or not.
C23_OneCallPerAskedRecord ==
    /\ ManifoldCallsInOrder
    /\ (ph_pc # "off" /\ ~CredentialAbsent) =>
          /\ \A k \in 1..Len(oracle_calls) : oracle_calls[k].site = "sankey"
          /\ \A a, b \in 1..Len(oracle_calls) : a < b => CallRecords[a] < CallRecords[b]
          /\ SeqRange(CallRecords) = {i \in WithTopics : i <= ph_i}
          /\ Len(ph_replies) = Len(oracle_calls) - (IF ph_pc = "awaiting" THEN 1 ELSE 0)
          /\ SankeyOver => Len(oracle_calls) = Cardinality(WithTopics)

\* C23 witness: a batch of two products, the first without topics, is over
\* after a single call, made for the second product, which failed.
C23_Witness ==
    /\ SankeyOver
    /\ ~CredentialAbsent
    /\ Len(product_hunt_data) = 2
    /\ WithTopics = {2}
    /\ CallRecords = <<2>>
    /\ Len(ph_replies) = 1
    /\ CallFailed(ph_replies[1].reply)

(***************************************************************************)
(* C24: what a transform and the later use of its result do to the input   *)
(* (SpecCaller).                                                           *)
(***************************************************************************)
\* C24: each of the four transforms leaves its input list and every input
\* record unchanged and returns a structure that shares no mutable object with
\* the input: neither a step of a transform nor a later change of a returned
\* structure changes an input list.
C24_InputNeverChanges ==
    [][/\ github_data' = github_data
       /\ rss_data' = rss_data
       /\ product_hunt_data' = product_hunt_data
       /\ predictions_data' = predictions_data]_vars

\* what holds of the four transforms: no step of a transform changes its
\* input, the lists of repositories, articles and predictions never change,
\* and the list of products changes only after the Sankey builder has
\* returned, in the topics of a record that carries topics.
C24_OnlyTopicsShared ==
    [][/\ github_data' = github_data
       /\ rss_data' = rss_data
       /\ predictions_data' = predictions_data
       /\ product_hunt_data' # product_hunt_data =>
             /\ ph_pc = "returned" /\ ph_pc' = "returned"
             /\ Len(product_hunt_data') = Len(product_hunt_data)
             /\ \A i \in 1..Len(product_hunt_data) :
                   product_hunt_data'[i] # product_hunt_data[i] =>
                       /\ TopicsIsInputObject(product_hunt_data[i])
                       /\ product_hunt_data'[i] =
                             [product_hunt_data[i] EXCEPT
                                 !.topics = ph_result'.product_details[i].topics]]_vars

(***************************************************************************)
(* C25: what main persists (SpecMain).                                     *)
(***************************************************************************)
\* the run was ended by an exception of the local file write itself
WriteFailed == main_pc = "raised" /\ main_error = "OSError"

\* the keys of the mapping are output keys; a mapping that was written holds
\* the key of a source iff the list fetched from that source is not empty
PersistedKeys ==
    /\ KeySet(processed_data) \subseteq {OutputKey[source] : source \in Sources}
    /\ local_file # None =>
          /\ local_file = processed_data
          /\ \A source \in Sources :
                OutputKey[source] \in KeySet(local_file) <=> fetched_data[source] # <<>>
    /\ (MainOver /\ \A source \in Sources : fetched_data[source] = <<>>) =>
          /\ main_pc = "complete"
          /\ processed_data = <<>>
          /\ local_file = None
          /\ store_ops = <<>>

\* C25: the mapping persisted by main contains only the four output keys, a
\* key being present iff the list fetched from its source is not empty, also
\* when the transform returned an empty structure; a run that is over wrote
\* the local file iff at least one key is present (unless the write itself
\* failed); and when all four lists are empty no file is written and no
\* remote insert is attempted.
C25_PersistedKeys ==
    /\ PersistedKeys
    /\ (MainOver /\ ~WriteFailed) => (local_file # None <=> processed_data # <<>>)

\* what holds of the runs in which no exception escapes a transform
C25_WhenTransformsReturn ==
    /\ PersistedKeys
    /\ (MainOver /\ ~WriteFailed /\ main_error # "KeyError") =>
          (local_file # None <=> processed_data # <<>>)

(***************************************************************************)
(* C26: the tags of the points (SpecManifold).                             *)
(***************************************************************************)
\* point i carries the label of record i and one of the prediction categories
LabelAndCategory(i) ==
    /\ ManifoldPoints[i].label = Get(predictions_data[i], "title", "")
    /\ ManifoldPoints[i].category \in SeqRange(CORE_PREDICTION_CATEGORIES)

\* point i of a record whose reply was a parsed object: the record's
\* probability and volume
Projected(i) ==
    mf_replies[i].kind = "object" =>
        /\ ManifoldPoints[i].x = Get(predictions_data[i], "probability_raw", DefaultProbability)
        /\ ManifoldPoints[i].y = Get(predictions_data[i], "volume", 0)

\* C26: every emitted point, of a record whose oracle call succeeded and of a
\* record whose oracle call failed alike, carries the resolved category, the
\* record's title as its label and the record's URL; the point of a record
\* whose call succeeded has the record's probability as x and its volume as y.
C26_PointsTagged ==
    (mf_pc = "returned" /\ ~CredentialAbsent) =>
        \A i \in 1..Len(ManifoldPoints) :
            /\ LabelAndCategory(i)
            /\ Projected(i)
            /\ "url" \in DOMAIN ManifoldPoints[i]
            /\ ManifoldPoints[i].url = Get(predictions_data[i], "url", "")

\* what holds of the points: label, category and projection as stated, and
\* the URL on exactly the points of the records whose reply was a parsed
\* object
C26_UrlOnCategorizedPoints ==
    (mf_pc = "returned" /\ ~CredentialAbsent) =>
        \A i \in 1..Len(ManifoldPoints) :
            /\ LabelAndCategory(i)
            /\ Projected(i)
            /\ "url" \in DOMAIN ManifoldPoints[i] <=> mf_replies[i].kind = "object"
            /\ mf_replies[i].kind = "object" =>
                  ManifoldPoints[i].url = Get(predictions_data[i], "url", "")

(***************************************************************************)
(* C27: the buckets of the languages that are not merged (SpecGithub).     *)
(***************************************************************************)
\* the language holds at least 2% of all input records
Qualifies(lang) == CountLang(github_data, lang) * OtherShareDen >= Len(github_data)

\* the language has a bucket of its own, whose data value is the number of
\* its input records
OwnBucket(lang) ==
    \E i \in 1..Len(chart_data.labels) :
        /\ chart_data.labels[i] = lang
        /\ chart_data.data[i] = CountLang(github_data, lang)

\* C27: every language whose share of the total record count is at least 2%
\* appears in the output labels with a data value equal to its own number of
\* input records, whatever its name (a language literally named 'Other'
\* included) and whatever other languages are merged into the synthetic
\* 'Other' bucket in the same run.
C27_QualifyingBucketKept ==
    gh_pc = "returned" =>
        \A lang \in KnownLanguages(github_data) : Qualifies(lang) => OwnBucket(lang)

\* what holds: the bucket of a qualifying language is kept unless the
\* language is literally named 'Other' and some language is merged in the
\* same run.
C27_UnlessOverwritten ==
    gh_pc = "returned" =>
        \A lang \in KnownLanguages(github_data) :
            (Qualifies(lang) /\ (lang # "Other" \/ gh_merged = <<>>)) => OwnBucket(lang)

(***************************************************************************)
(* C28: the shape of the chart (SpecGithub).                               *)
(***************************************************************************)
\* the position in the input of the first record of the language
FirstOccurrence(lang) ==
    CHOOSE i \in 1..Len(github_data) :
        /\ LanguageOf(github_data[i]) = lang
        /\ \A j \in 1..(i - 1) : LanguageOf(github_data[j]) # lang

\* bucket i is the bucket the merged languages went into
IsMergedBucket(i) == chart_data.labels[i] = "Other" /\ gh_merged # <<>>

\* C28: in every output, labels, data and hoverData have the same length and
\* entry i of each describes the same bucket (the count and the repositories
\* of the language labels[i], or of the merged languages); the labels are
\* pairwise distinct; the languages appear in the order of their first
\* occurrence in the input; and backgroundColor is the same 7-colour palette
\* for every input.
C28_ChartAligned ==
    gh_pc = "returned" =>
        /\ Len(chart_data.data) = Len(chart_data.labels)
        /\ Len(chart_data.hoverData) = Len(chart_data.labels)
        /\ \A i \in 1..Len(chart_data.labels) :
              /\ Len(chart_data.hoverData[i].repositories) = chart_data.data[i]
              /\ IF IsMergedBucket(i)
                 THEN chart_data.hoverData[i].repositories
                         = ReposOfAll(github_data, gh_merged, Len(gh_merged))
                 ELSE /\ chart_data.labels[i] \in KnownLanguages(github_data)
                      /\ chart_data.data[i] = CountLang(github_data, chart_data.labels[i])
                      /\ chart_data.hoverData[i].repositories
                            = ReposOf(github_data, chart_data.labels[i])
        /\ \A i, j \in 1..Len(chart_data.labels) :
              i < j =>
                  /\ chart_data.labels[i] # chart_data.labels[j]
                  /\ (~IsMergedBucket(i) /\ ~IsMergedBucket(j)) =>
                        FirstOccurrence(chart_data.labels[i])
                            < FirstOccurrence(chart_data.labels[j])
        /\ chart_data.backgroundColor = Palette
        /\ Len(Palette) = 7

\* C28 witness: a chart of two languages with different counts whose records
\* are interleaved in the input: the last record is one of the language that
\* occurs first, and the second language occurs before it.
C28_Witness ==
    /\ gh_pc = "returned"
    /\ Len(chart_data.labels) = 2
    /\ gh_merged = <<>>
    /\ chart_data.data[1] # chart_data.data[2]
    /\ FirstOccurrence(chart_data.labels[1]) < FirstOccurrence(chart_data.labels[2])
    /\ LanguageOf(github_data[Len(github_data)]) = chart_data.labels[1]

====
